---------------------------- MODULE Spec2Model ----------------------------
(***************************************************************************)
(* Model of the KTP/NPWP intake bot: the per-user session kept in          *)
(* context.user_data, the callback/message/command handlers that mutate    *)
(* it, and GoogleService.save_photo_and_data (the "commit").               *)
(*                                                                         *)
(* One user's session is modelled.  The application is built with          *)
(* concurrent_updates(256), so every update of the user is handled in its  *)
(* own task; a task runs atomically up to the network call it awaits.  The *)
(* awaits that are kept as suspension points are the recognition call of   *)
(* _process_photo_workflow and the Telegram file download of               *)
(* _upload_file_to_drive.  The Google API calls are synchronous            *)
(* (.execute()), so duplicate lookup and row append run without yielding.  *)
(* The time read by a handler is an input of the handler.  The messages    *)
(* sent to the user are left out.                                          *)
(*                                                                         *)
(* The specifications share the variables:                                 *)
(*   Spec         the button, command and intake handlers with the commit; *)
(*   SpecSession  the same handlers without the save buttons, with         *)
(*                handle_text_message (edit input, PDF naming);            *)
(*   SpecCommit   save_photo_and_data called repeatedly on one session     *)
(*                that awaits confirmation;                                *)
(*   SpecManager  SessionManager and UserSession of models/session.py,     *)
(*                which the handlers do not use;                           *)
(*   SpecExtract  AIService.extract_document_data, one attempt a step      *)
(*                (SpecExtractFair: every attempt returns or raises);      *)
(*   SpecRepair   _clean_and_validate_number and _parse_ai_response        *)
(*                applied to raw values of a response;                     *)
(*   SpecValidate validate_nik applied to 16-digit strings;                *)
(*   SpecEdit     the edit menu of a preview, its buttons and the text     *)
(*                typed for a field;                                       *)
(*   SpecRace     the save button pressed again while an upload waits;     *)
(*   SpecRestore  UserSession.to_dict and from_dict applied to the         *)
(*                sessions set_workflow, set_state and the error counter   *)
(*                produce.                                                 *)
(***************************************************************************)
EXTENDS Integers, Sequences, FiniteSets, Bags, TLC

(***************************************************************************)
(* Bounds of the model.                                                    *)
(***************************************************************************)
MaxTasks == 2
MaxRows == 2
\* recognition calls outstanding at once where the text handler runs
MaxSessionTasks == 1

(***************************************************************************)
(* Program constants.                                                      *)
(***************************************************************************)
\* settings.SESSION_TIMEOUT_MINUTES (the default of the environment variable)
SESSION_TIMEOUT_MINUTES == 30

\* extract_document_data(image_bytes, max_retries=3): the default, which the
\* caller leaves alone
max_retries == 3

None == "none"
SP == 32                      \* the code of a blank in a cell value
NoNum == << >>                \* a numeric field that is None or ""

\* FOLDER_MAP / SHEET_NAME_MAP for two of the branches, the folder ids
\* replaced by names
FOLDER_MAP == [BJ |-> "folder_BJ", SMG |-> "folder_SMG"]
SHEET_NAME_MAP == [BJ |-> "NPWPKTP BJ (NEW)", SMG |-> "NPWPKTP BBN SMG (NEW)"]
SheetNames == {SHEET_NAME_MAP[b] : b \in DOMAIN SHEET_NAME_MAP}

is_valid_branch(branch) ==
    branch \in DOMAIN FOLDER_MAP /\ branch \in DOMAIN SHEET_NAME_MAP

(***************************************************************************)
(* DocumentData (models/document.py).                                      *)
(***************************************************************************)
NIK1 == <<3,2,0,1,0,1,0,1,0,1,9,0,0,0,0,1>>
NPWP15A == <<0,1,2,3,4,5,6,7,8,9,0,1,2,3,4>>

NoDoc == [document_type |-> None, nama |-> None, alamat |-> None,
          nik |-> NoNum, npwp_15 |-> NoNum, npwp_16 |-> NoNum,
          npwp_type |-> None]

DocKTP == [NoDoc EXCEPT !.document_type = "KTP", !.nama = "Budi",
                        !.alamat = "Jl. Merdeka", !.nik = NIK1]
DocNPWP == [NoDoc EXCEPT !.document_type = "NPWP", !.nama = "PT Maju",
                         !.npwp_15 = NPWP15A, !.npwp_16 = <<0>> \o NPWP15A]

\* the records the recognition service can yield (_parse_ai_response)
ExtractedDocs == {DocKTP, DocNPWP}

id_tku(doc) ==
    IF doc.document_type = "NPWP" /\ doc.npwp_type = "company" /\ doc.npwp_15 # NoNum
    THEN (<<0>> \o doc.npwp_15) \o <<0,0,0,0,0,0>>
    ELSE NoNum

primary_id(doc) ==
    IF doc.document_type = "KTP" THEN doc.nik
    ELSE IF doc.document_type = "NPWP"
         THEN (IF doc.npwp_16 # NoNum THEN doc.npwp_16 ELSE doc.nik)
         ELSE NoNum

to_dict(doc) ==
    [exists |-> TRUE,
     document_type |-> doc.document_type, nama |-> doc.nama,
     alamat |-> doc.alamat, nik |-> doc.nik, npwp_15 |-> doc.npwp_15,
     npwp_16 |-> doc.npwp_16, npwp_type |-> doc.npwp_type,
     id_tku |-> id_tku(doc), primary_id |-> primary_id(doc)]

NoDict == [exists |-> FALSE,
           document_type |-> None, nama |-> None, alamat |-> None,
           nik |-> NoNum, npwp_15 |-> NoNum, npwp_16 |-> NoNum,
           npwp_type |-> None, id_tku |-> NoNum, primary_id |-> NoNum]

to_sheet_row(doc, nama_toko) ==
    LET company == doc.document_type = "NPWP" /\ doc.npwp_type = "company"
    IN << doc.document_type,
          nama_toko,
          "",
          IF company THEN "TIN" ELSE "",
          IF company THEN "-" ELSE "",
          doc.npwp_15,
          primary_id(doc),
          id_tku(doc),
          doc.nama,
          IF doc.alamat = None THEN "" ELSE doc.alamat >>

get_duplicate_check_values(doc) ==
    {v \in {doc.npwp_15, primary_id(doc), id_tku(doc)} : v # NoNum}

(***************************************************************************)
(* Text typed by the user and DocumentValidator (core/validators.py).  A   *)
(* text is a sequence of character codes: a digit stands for itself, any   *)
(* other character has its ASCII code.  The field nama holds a string,     *)
(* whose characters are given by chars.                                    *)
(***************************************************************************)
DOT == 46
DASH == 45
UNDERSCORE == 95

IsDigit(c) == c \in 0..9
IsLetter(c) == c \in 65..90 \/ c \in 97..122
IsWordChar(c) == IsDigit(c) \/ IsLetter(c) \/ c = UNDERSCORE
NotFormatting(c) == c \notin {DOT, DASH, SP}
NotBlank(c) == c # SP
Lower(c) == IF c \in 65..90 THEN c + 32 ELSE c

\* str.strip(), for the blank
RECURSIVE StripLeft(_)
StripLeft(s) == IF s # << >> /\ Head(s) = SP THEN StripLeft(Tail(s)) ELSE s

RECURSIVE StripRight(_)
StripRight(s) ==
    IF s # << >> /\ s[Len(s)] = SP THEN StripRight(SubSeq(s, 1, Len(s) - 1)) ELSE s

Strip(s) == StripRight(StripLeft(s))

AllDigits(s) == \A i \in 1..Len(s) : IsDigit(s[i])
AllEqual(s, d) == \A i \in 1..Len(s) : s[i] = d

\* the texts a name can be typed as, with their characters
chars == ("Siti" :> <<83, 105, 116, 105>>)
         @@ (" Siti " :> <<SP, 83, 105, 116, 105, SP>>)
         @@ ("S" :> <<83>>)
         @@ ("test" :> <<116, 101, 115, 116>>)
         @@ ("  " :> <<SP, SP>>)
         @@ ("" :> << >>)

\* str.strip() of a typed name
strip_text(t) == CHOOSE u \in DOMAIN chars : chars[u] = Strip(chars[t])

\* 'test', 'testing', 'admin', 'user', 'null', 'undefined'
suspicious_names ==
    {<<116, 101, 115, 116>>,
     <<116, 101, 115, 116, 105, 110, 103>>,
     <<97, 100, 109, 105, 110>>,
     <<117, 115, 101, 114>>,
     <<110, 117, 108, 108>>,
     <<117, 110, 100, 101, 102, 105, 110, 101, 100>>}

\* DocumentValidator.validate_nama, on the characters of the name
validate_nama(cs) ==
    LET nama == Strip(cs)
        lowered == [i \in 1..Len(nama) |-> Lower(nama[i])]
        letters == SelectSeq(lowered, NotBlank)
    IN /\ nama # << >>
       /\ Len(nama) >= 2
       /\ Len(nama) <= 100
       /\ ~(\A i \in 1..Len(nama) : IsDigit(nama[i]) \/ ~IsWordChar(nama[i]))
       /\ lowered \notin suspicious_names
       /\ Cardinality({letters[i] : i \in 1..Len(letters)}) >= 2

\* DocumentValidator._is_valid_province_code
valid_codes ==
    (11..19) \cup (21..26) \cup (31..36) \cup (51..53) \cup (61..65)
    \cup (71..76) \cup (81..82) \cup (91..94)

_is_valid_province_code(code) == code \in valid_codes

\* datetime.now().year as read by _is_valid_nik_date
current_year == 2025

\* a date check that takes any month
_is_valid_nik_date_any_month(d) ==
    LET day0 == 10 * d[1] + d[2]
        day == IF day0 > 40 THEN day0 - 40 ELSE day0
        year == 10 * d[5] + d[6]
        full_year == IF year > 50 THEN 1900 + year ELSE 2000 + year
    IN /\ Len(d) = 6
       /\ day \in 1..31
       /\ ~(full_year > current_year \/ full_year < 1900)

\* a date check that knows no day above 31
_is_valid_nik_date_no_offset(d) ==
    LET day == 10 * d[1] + d[2]
        month == 10 * d[3] + d[4]
        year == 10 * d[5] + d[6]
        full_year == IF year > 50 THEN 1900 + year ELSE 2000 + year
    IN /\ Len(d) = 6
       /\ day \in 1..31
       /\ month \in 1..12
       /\ ~(full_year > current_year \/ full_year < 1900)

\* DocumentValidator._is_valid_nik_date, on the digits DDMMYY
_is_valid_nik_date(d) ==
    LET day0 == 10 * d[1] + d[2]
        day == IF day0 > 40 THEN day0 - 40 ELSE day0
        month == 10 * d[3] + d[4]
        year == 10 * d[5] + d[6]
        full_year == IF year > 50 THEN 1900 + year ELSE 2000 + year
    IN /\ Len(d) = 6
       /\ day \in 1..31
       /\ month \in 1..12
       /\ ~(full_year > current_year \/ full_year < 1900)

\* DocumentValidator.validate_nik
validate_nik(nik) ==
    LET clean_nik == SelectSeq(nik, IsDigit)
    IN /\ nik # << >>
       /\ Len(clean_nik) = 16
       /\ AllDigits(clean_nik)
       /\ ~AllEqual(clean_nik, 0)
       /\ ~AllEqual(clean_nik, 1)
       /\ _is_valid_province_code(10 * clean_nik[1] + clean_nik[2])
       /\ _is_valid_nik_date(SubSeq(clean_nik, 7, 12))

\* DocumentValidator.validate_npwp_15
validate_npwp_15(npwp) ==
    LET clean_npwp == SelectSeq(npwp, NotFormatting)
    IN /\ npwp # << >>
       /\ Len(clean_npwp) = 15
       /\ AllDigits(clean_npwp)
       /\ ~AllEqual(clean_npwp, 0)

\* DocumentValidator.validate_npwp_16
validate_npwp_16(npwp) ==
    LET clean_npwp == SelectSeq(npwp, NotFormatting)
    IN /\ npwp # << >>
       /\ Len(clean_npwp) = 16
       /\ AllDigits(clean_npwp)
       /\ ~AllEqual(clean_npwp, 0)

\* the field whose value is a string (alamat is not among the fields edited
\* here)
TextFields == {"nama", "alamat", "document_type"}

\* the addresses and the document types typed, and their characters
AlamatTexts == {"RT 01 RW 02", "Jl. Merdeka", "RT"}
TypeTexts == {"SIM", "ktp"}
edit_chars ==
    ("RT 01 RW 02" :> <<82, 84, SP, 0, 1, SP, 82, 87, SP, 0, 2>>)
    @@ ("Jl. Merdeka" :> <<74, 108, DOT, SP, 77, 101, 114, 100, 101, 107, 97>>)
    @@ ("RT" :> <<82, 84>>)
    @@ ("SIM" :> <<83, 73, 77>>)
    @@ ("ktp" :> <<107, 116, 112>>)
all_chars == chars @@ edit_chars

\* update.message.text.strip() of a typed text
strip_value(t) ==
    CHOOSE u \in DOMAIN all_chars : all_chars[u] = Strip(all_chars[t])

\* the characters of a typed value and the value stored for it
chars_of(field, text) == IF field \in TextFields THEN all_chars[text] ELSE text
new_value_of(field, text) ==
    IF field \in TextFields THEN strip_value(text) ELSE Strip(text)

\* sub in s
Contains(s, sub) ==
    \E i \in 1..(Len(s) - Len(sub) + 1) : SubSeq(s, i, i + Len(sub) - 1) = sub

\* rt, rw, kel, kec, kab, kot, prov
required_components ==
    {<<114, 116>>, <<114, 119>>, <<107, 101, 108>>, <<107, 101, 99>>,
     <<107, 97, 98>>, <<107, 111, 116>>, <<112, 114, 111, 118>>}

\* DocumentValidator.validate_alamat
validate_alamat(cs) ==
    LET alamat == Strip(cs)
        alamat_lower == [i \in 1..Len(alamat) |-> Lower(alamat[i])]
        component_count ==
            Cardinality({comp \in required_components :
                            Contains(alamat_lower, comp)})
    IN /\ alamat # << >>
       /\ Len(alamat) >= 10
       /\ Len(alamat) <= 500
       /\ component_count >= 2

\* _validate_edit_value: TRUE when no error is returned for the value
\* (already stripped by the caller)
_validate_edit_value(field, value) ==
    LET cs == chars_of(field, value)
    IN /\ Strip(cs) # << >>
       /\ field = "nama" => validate_nama(cs)
       /\ field = "alamat" => validate_alamat(cs)
       /\ field = "nik" => validate_nik(cs)
       /\ field = "npwp_15" => validate_npwp_15(cs)
       /\ field = "npwp_16" => validate_npwp_16(cs)

(***************************************************************************)
(* The session: context.user_data, a dict cleared in place.  A key that is *)
(* absent and a key holding None read the same through .get().             *)
(***************************************************************************)
\* user_data['last_activity'] is a stamp or absent.  A handler reads the
\* clock once: datetime.now() - last_activity is an input of the handler,
\* exactly the timeout or just past it
NoTime == -1
Stamp == 0
Elapsed == {SESSION_TIMEOUT_MINUTES, SESSION_TIMEOUT_MINUTES + 1}

EmptyData == [workflow_type |-> None, state |-> None, last_activity |-> NoTime,
              file_id |-> None, original_filename |-> None,
              custom_filename |-> None, nama_toko |-> None,
              branch |-> None, sheet_name |-> None,
              document_data |-> NoDoc, extracted_data |-> NoDict,
              npwp_type |-> None, edit_field |-> None]

\* SessionState (models/session.py): the declared states
SessionState == {"idle", "awaiting_branch", "awaiting_npwp_type",
                 "awaiting_confirmation", "awaiting_edit_input",
                 "awaiting_pdf_name", "awaiting_branch_edit",
                 "selecting_edit_field", "awaiting_duplicate_confirmation",
                 "processing_ai", "saving_data"}

\* UserSession.can_transition_to: the transition table
valid_transitions(s) ==
    CASE s = "idle" -> {"awaiting_branch"}
      [] s = "awaiting_branch" -> {"awaiting_npwp_type", "awaiting_confirmation",
                                   "awaiting_pdf_name", "processing_ai", "idle"}
      [] s = "processing_ai" -> {"awaiting_npwp_type", "awaiting_confirmation", "idle"}
      [] s = "awaiting_npwp_type" -> {"awaiting_confirmation", "idle"}
      [] s = "awaiting_confirmation" -> {"selecting_edit_field",
                                         "awaiting_duplicate_confirmation",
                                         "saving_data", "idle"}
      [] s = "selecting_edit_field" -> {"awaiting_edit_input", "awaiting_branch_edit",
                                        "awaiting_confirmation", "idle"}
      [] s = "awaiting_edit_input" -> {"awaiting_confirmation", "idle"}
      [] s = "awaiting_branch_edit" -> {"awaiting_confirmation", "idle"}
      [] s = "awaiting_pdf_name" -> {"saving_data", "idle"}
      [] s = "awaiting_duplicate_confirmation" -> {"saving_data", "idle"}
      [] s = "saving_data" -> {"idle"}
      [] OTHER -> {}

can_transition_to(s, new_state) ==
    new_state \in valid_transitions(s) \/ new_state = "idle"

_is_session_expired(ud, elapsed) ==
    /\ ud # EmptyData
    /\ ud.last_activity # NoTime
    /\ elapsed > SESSION_TIMEOUT_MINUTES

\* a clearing that leaves the state and the record behind
_clear_keeps_record(ud) ==
    [EmptyData EXCEPT !.state = ud.state, !.document_data = ud.document_data]

_clear_user_session(ud) == EmptyData

\* an intake that keeps what the session held
_init_user_session_keeps(ud, workflow_type) ==
    [ud EXCEPT !.workflow_type = workflow_type,
               !.state = "initialized",
               !.last_activity = Stamp]

\* _init_user_session: the session is cleared, then started
_init_user_session(ud, workflow_type) ==
    [_clear_user_session(ud) EXCEPT !.workflow_type = workflow_type,
                                    !.state = "initialized",
                                    !.last_activity = Stamp]

\* both are called on a session already found not expired
_set_session_state(ud, state) ==
    [ud EXCEPT !.state = state, !.last_activity = Stamp]

_set_session_data(ud, key, value) ==
    [ud EXCEPT ![key] = value, !.last_activity = Stamp]

\* an expiry check that raises and leaves the session in place
_get_user_session_keeps(ud, elapsed) ==
    [ud |-> ud, raised |-> _is_session_expired(ud, elapsed)]

\* _get_user_session: an expired session is cleared and SessionExpiredError
\* raised
_get_user_session(ud, elapsed) ==
    IF _is_session_expired(ud, elapsed)
    THEN [ud |-> _clear_user_session(ud), raised |-> TRUE]
    ELSE [ud |-> ud, raised |-> FALSE]

\* handle_error for an exception that is a BotException: the session is
\* cleared after the message went out, and kept when sending it failed
handle_error(ud, sent) == IF sent THEN _clear_user_session(ud) ELSE ud

(***************************************************************************)
(* The store: sheet rows per tab, the files uploaded to Drive, and the     *)
(* branch folders that already hold a 'Sudah diinput' sub-folder.          *)
(***************************************************************************)
\* columns F, G, H: the checked columns of a tab
CheckedColumns == 6..8

\* a lookup that reads column F alone
ranges_only_F == {6}

\* the columns F, G, H read by batchGet
ranges_to_check == {6, 7, 8}

\* outcome of the batchGet call: an answer, an HttpError, another exception
StoreOutcome == {"ok", "http", "exc"}

\* a lookup that answers 'no duplicate' on an HttpError as well
_check_for_duplicates_lenient(rows, doc, out) ==
    LET check_values == get_duplicate_check_values(doc)
        found == \E r \in 1..Len(rows) : \E c \in ranges_to_check :
                    /\ rows[r][c] # NoNum
                    /\ Strip(rows[r][c]) \in check_values
    IN [called |-> check_values # {}, raised |-> FALSE,
        dup |-> check_values # {} /\ out = "ok" /\ found]

\* _check_for_duplicates: rows of the tab, the record, the outcome of batchGet
_check_for_duplicates(rows, doc, out) ==
    LET check_values == get_duplicate_check_values(doc)
        found == \E r \in 1..Len(rows) : \E c \in ranges_to_check :
                    /\ rows[r][c] # NoNum
                    /\ Strip(rows[r][c]) \in check_values
    IN IF check_values = {}
       THEN [called |-> FALSE, raised |-> FALSE, dup |-> FALSE]
       ELSE IF out = "http"
       THEN [called |-> TRUE, raised |-> TRUE, dup |-> FALSE]
       ELSE IF out = "exc"
       THEN [called |-> TRUE, raised |-> FALSE, dup |-> FALSE]
       ELSE [called |-> TRUE, raised |-> FALSE, dup |-> found]


(***************************************************************************)
(* GoogleService.save_photo_and_data, the commit.  The record of one       *)
(* commit keeps the calls made to the store, in order, and their outcomes. *)
(***************************************************************************)
NewCommit(ud, bypass) ==
    [bypass |-> bypass, branch |-> ud.branch, sheet |-> None,
     file_id |-> ud.file_id, stored_before |-> FALSE, calls |-> << >>,
     init |-> "none", lookup |-> "none", append |-> "none", row |-> 0,
     upload |-> "none", result |-> "pending"]

NoCommit == [NewCommit(EmptyData, FALSE) EXCEPT !.result = "none"]

CommitError(cm) == [cm EXCEPT !.result = "error"]

\* whether a token of the record equals a value held in the checked columns
TokenStored(rows, doc) ==
    \E r \in 1..Len(rows) : \E c \in CheckedColumns :
        rows[r][c] # NoNum /\ rows[r][c] \in get_duplicate_check_values(doc)

NamaToko(ud) == IF ud.nama_toko = None THEN "" ELSE ud.nama_toko

\* an append step whose failure does not stop the commit
_append_step_goes_on(cm, row, appendOk, has_file) ==
    [cm EXCEPT !.append = IF appendOk THEN "ok" ELSE "fail",
               !.row = IF appendOk THEN row ELSE 0,
               !.result = IF has_file THEN "pending" ELSE "success"]

\* save_photo_and_data from the append on: an exception of
\* _save_to_spreadsheet ends the commit; else the upload is due if the
\* session holds a file
_append_step(cm, row, appendOk, has_file) ==
    IF ~appendOk
    THEN CommitError([cm EXCEPT !.append = "fail"])
    ELSE [cm EXCEPT !.append = "ok", !.row = row,
                    !.result = IF has_file THEN "pending" ELSE "success"]

\* save_photo_and_data up to its first await: initialisation, the checks of
\* the session data, the duplicate lookup and the row append
save_photo_and_data(ud, bypass, sh, initOk, lookupOut, appendOk) ==
    LET cmi == NewCommit(ud, bypass)
        cm0 == [cmi EXCEPT !.init = "ok"]
        doc == ud.document_data
        branch == ud.branch
    IN IF ~initOk THEN CommitError([cmi EXCEPT !.init = "fail"])
       ELSE IF doc = NoDoc THEN CommitError(cm0)
       ELSE IF branch = None \/ ~is_valid_branch(branch) THEN CommitError(cm0)
       ELSE
         LET sheet_name == SHEET_NAME_MAP[branch]
             chk == IF bypass
                    THEN [called |-> FALSE, raised |-> FALSE, dup |-> FALSE]
                    ELSE _check_for_duplicates(sh[sheet_name], doc, lookupOut)
             cm1 == [cm0 EXCEPT
                       !.sheet = sheet_name,
                       !.stored_before = TokenStored(sh[sheet_name], doc),
                       !.calls = IF chk.called THEN <<"batchGet">> ELSE << >>,
                       !.lookup = IF chk.called THEN lookupOut ELSE "skipped"]
             cm2 == [cm1 EXCEPT !.calls = Append(cm1.calls, "append")]
         IN IF chk.raised THEN CommitError(cm1)
            ELSE IF chk.dup THEN [cm1 EXCEPT !.result = "duplicate_found"]
            ELSE _append_step(cm2, Len(sh[sheet_name]) + 1, appendOk,
                              ud.file_id # None)

\* _save_to_spreadsheet: the tabs after the first part of the commit
_save_to_spreadsheet(sh, cm, ud) ==
    IF cm.append = "ok"
    THEN [sh EXCEPT ![cm.sheet] =
             Append(sh[cm.sheet], to_sheet_row(ud.document_data, NamaToko(ud)))]
    ELSE sh

\* an upload failure that takes the appended row back
sheets_rolled_back(sh, cm) ==
    IF cm.upload = "fail"
    THEN [sh EXCEPT ![cm.sheet] = SubSeq(@, 1, Len(@) - 1)]
    ELSE sh

\* save_photo_and_data once the upload has returned or raised: the except
\* clause reports the error, the tab keeps the row
sheets_after_upload(sh, cm) == sh

\* _upload_file_to_drive after the download: _find_or_create_subfolder (the
\* cache of a fresh GoogleService is empty) and files().create
_upload_file_to_drive(cm, subf, dl, fl, fc, up) ==
    LET c1 == [cm EXCEPT !.calls = Append(cm.calls, "get_file")]
        c2 == [c1 EXCEPT !.calls = Append(c1.calls, "files.list")]
        exists == cm.branch \in subf
        c3 == IF exists THEN c2
              ELSE [c2 EXCEPT !.calls = Append(c2.calls, "folder.create")]
        c4 == [c3 EXCEPT !.calls = Append(c3.calls, "files.create")]
        fail(c) == [cm |-> CommitError([c EXCEPT !.upload = "fail"]),
                    subf |-> subf, uploaded |-> FALSE]
    IN IF ~dl THEN fail(c1)
       ELSE IF ~fl THEN fail(c2)
       ELSE IF ~exists /\ ~fc THEN fail(c3)
       ELSE IF ~up
       THEN [fail(c4) EXCEPT !.subf = subf \cup {cm.branch}]
       ELSE [cm |-> [c4 EXCEPT !.upload = "ok", !.result = "success"],
             subf |-> subf \cup {cm.branch}, uploaded |-> TRUE]

\* _handle_duplicate_data
_handle_duplicate_data(ud) ==
    _set_session_state(ud, "awaiting_duplicate_confirmation")

\* _handle_save_result: the session once the result has been reported
_handle_save_result(ud, result) ==
    _clear_user_session(IF result = "duplicate_found"
                        THEN _handle_duplicate_data(ud)
                        ELSE ud)


(***************************************************************************)
(* _process_document_and_show_preview: the session and the message after   *)
(* it, for a session already found not expired.                            *)
(***************************************************************************)
NPWPType == {"personal", "company"}

_process_document_and_show_preview(ud) ==
    LET npwp_type == ud.npwp_type
        doc == ud.document_data
        extracted == ud.extracted_data
    IN IF npwp_type # None /\ doc # NoDoc
       THEN IF npwp_type \notin NPWPType \/ ~extracted.exists
            THEN [ud |-> _clear_user_session(ud), msg |-> "process_error"]
            ELSE [ud |-> _set_session_state(
                            [ud EXCEPT !.document_data.npwp_type = npwp_type,
                                       !.extracted_data.npwp_type = npwp_type],
                            "awaiting_confirmation"),
                  msg |-> "preview"]
       ELSE [ud |-> _set_session_state(ud, "awaiting_confirmation"),
             msg |-> IF doc # NoDoc \/ extracted.exists
                     THEN "preview" ELSE "preview_error"]

(***************************************************************************)
(* handle_text_message: _handle_data_edit and _handle_pdf_naming.          *)
(***************************************************************************)
\* an edit that reaches the shadow map alone
_apply_edit_shadow_only(ud, field, new_value) ==
    LET u1 == _set_session_data(ud, "extracted_data",
                 [ud.extracted_data EXCEPT ![field] = new_value, !.exists = TRUE])
        u2 == _set_session_data(u1, "edit_field", None)
    IN _set_session_state(u2, "awaiting_confirmation")

\* _handle_data_edit for an accepted value: the shadow map and the record
\* take the value, the pending field goes, the preview is sent again
_apply_edit(ud, field, new_value) ==
    LET u1 == _set_session_data(ud, "extracted_data",
                 [ud.extracted_data EXCEPT ![field] = new_value, !.exists = TRUE])
        u2 == IF ud.document_data # NoDoc
              THEN _set_session_data(u1, "document_data",
                      [ud.document_data EXCEPT ![field] = new_value])
              ELSE u1
        u3 == _set_session_data(u2, "edit_field", None)
    IN _set_session_state(u3, "awaiting_confirmation")

\* a rejected value that ends the edit
_reject_edit_resets(ud) ==
    _set_session_state(_set_session_data(ud, "edit_field", None),
                       "awaiting_confirmation")

\* _handle_data_edit for a rejected value: the error is sent, nothing else
_reject_edit(ud) == ud

\* _handle_data_edit: the session and what became of the typed text
_handle_data_edit(ud, text) ==
    LET edit_field == ud.edit_field
        new_value == new_value_of(edit_field, text)
    IN IF edit_field = None
       THEN [ud |-> _clear_user_session(ud), outcome |-> "no_field"]
       ELSE IF ~_validate_edit_value(edit_field, new_value)
       THEN [ud |-> _reject_edit(ud), outcome |-> "edit_rejected"]
       ELSE [ud |-> _apply_edit(ud, edit_field, new_value),
             outcome |-> "edit_accepted"]

\* what _handle_pdf_naming hands to save_pdf_to_drive: the context object,
\* which has no get(), where the function reads a dictionary (messages.py:221)
ContextArg(ud) == [has_get |-> FALSE, user_data |-> ud]

\* GoogleService.save_pdf_to_drive: every path ends in the except clause,
\* the last one after the sub-folder PDF has been looked up, and no file is
\* downloaded or created
save_pdf_to_drive(arg, initOk) ==
    LET error(calls) == [status |-> "error", calls |-> calls]
    IN IF ~initOk THEN error(<< >>)
       ELSE IF ~arg.has_get THEN error(<< >>)
       ELSE IF arg.user_data.file_id = None THEN error(<< >>)
       ELSE IF arg.user_data.branch = None
               \/ ~is_valid_branch(arg.user_data.branch) THEN error(<< >>)
       ELSE error(<<"files.list">>)

\* _handle_pdf_naming: a name of 2 to 100 characters is stored, the save
\* is attempted (save_pdf_to_drive returns an error before it calls Drive)
\* and the session is cleared
_handle_pdf_naming(ud, text) ==
    LET file_name == Strip(text)
    IN IF Len(file_name) < 2 \/ Len(file_name) > 100
       THEN ud
       ELSE _clear_user_session(
               _set_session_state(
                  _set_session_data(ud, "custom_filename", "named"),
                  "saving_pdf"))

(***************************************************************************)
(* SessionManager and UserSession (models/session.py).  A UserSession is   *)
(* kept by its state, workflow type, branch and last_activity; time is in  *)
(* minutes.                                                                *)
(***************************************************************************)
UserIds == {1}

NoSession == [state |-> None, workflow_type |-> None, branch |-> None,
              last_activity |-> NoTime]

\* UserSession(user_id=...): the defaults, then __post_init__ stamps it
UserSession(now) == [state |-> "idle", workflow_type |-> None, branch |-> None,
                     last_activity |-> now]

\* an expiry test that fires at the timeout already
is_expired_at_timeout(session, now) ==
    now - session.last_activity >= SESSION_TIMEOUT_MINUTES

\* UserSession.is_expired
is_expired(session, now) ==
    now - session.last_activity > SESSION_TIMEOUT_MINUTES

\* UserSession.set_workflow
set_workflow(session, workflow_type, now) ==
    [session EXCEPT !.workflow_type = workflow_type,
                    !.state = "awaiting_branch", !.last_activity = now]

\* UserSession.set_state
set_state(session, new_state, now) ==
    [session EXCEPT !.state = new_state, !.last_activity = now]

\* SessionManager(): no session stored; found and returned keep what the
\* last get_session met and gave back
NoManager == [_sessions |-> [u \in UserIds |-> NoSession], now |-> 0,
              found |-> NoSession, returned |-> NoSession]

\* SessionManager.get_session
get_session(m, user_id) ==
    LET created == IF m._sessions[user_id] = NoSession
                   THEN [m._sessions EXCEPT ![user_id] = UserSession(m.now)]
                   ELSE m._sessions
        session == created[user_id]
    IN IF is_expired(session, m.now)
       THEN [m EXCEPT !._sessions = [created EXCEPT ![user_id] = UserSession(m.now)],
                      !.found = m._sessions[user_id],
                      !.returned = UserSession(m.now)]
       ELSE [m EXCEPT !._sessions = created,
                      !.found = m._sessions[user_id],
                      !.returned = session]

\* SessionManager.clear_session
clear_session(m, user_id) ==
    [m EXCEPT !._sessions[user_id] = NoSession,
              !.found = NoSession, !.returned = NoSession]

(***************************************************************************)
(* AIService.extract_document_data (services/ai_service.py): the retry     *)
(* loop over the recognition call.  One iteration is one step; the pause   *)
(* before the next attempt is part of the iteration that failed.           *)
(***************************************************************************)
\* settings.ACTIVE_AI_SERVICE
Providers == {"openai", "deepseek"}

\* what an attempt meets: a response that parses into a record, an empty
\* response, a response that does not parse, a rate limit, a rejected key,
\* a timeout, any other failure of the call, no client to call with
AttemptOutcomes ==
    {"record", "empty", "malformed", "rate_limit", "authentication",
     "timeout", "other", "no_client"}

\* an attempt that calls the recognition service
calls_service(provider, outcome) == outcome # "no_client"

\* the outcomes a provider can have: only the OpenAI client can be missing
OutcomesOf(provider) ==
    IF provider = "openai" THEN AttemptOutcomes
    ELSE AttemptOutcomes \ {"no_client"}

\* the class of the exception an attempt ends with, None for a record:
\* _call_openai_api wraps what is neither a rate limit nor a rejected key in
\* AIProcessingError, _call_deepseek_api lets an unforeseen exception pass
_call_api(provider, outcome) ==
    CASE outcome = "record" -> None
      [] outcome = "rate_limit" -> "RateLimitError"
      [] outcome = "authentication" -> "AuthenticationError"
      [] outcome = "other" /\ provider = "deepseek" -> "Exception"
      [] OTHER -> "AIProcessingError"

\* no invocation of extract_document_data
NoExtraction ==
    [status |-> "idle", provider |-> None, attempt |-> 0, calls |-> 0,
     history |-> << >>, pauses |-> << >>, error |-> None,
     ai_service |-> None, result |-> NoDoc]

\* extract_document_data entered: attempt 0 is about to run
NewExtraction(provider) ==
    [NoExtraction EXCEPT !.status = "running", !.provider = provider]

\* a rate limit that is always waited out
on_rate_limit_always_retries(x) ==
    [x EXCEPT !.pauses = Append(@, (2 ^ x.attempt) * 5), !.attempt = @ + 1]

\* except RateLimitError: exponential backoff, or the error itself once the
\* attempts are used up
on_rate_limit(x) ==
    IF x.attempt < max_retries - 1
    THEN [x EXCEPT !.pauses = Append(@, (2 ^ x.attempt) * 5), !.attempt = @ + 1]
    ELSE [x EXCEPT !.status = "raised", !.error = "RateLimitError"]

\* a rejected key that is retried like any other failure
on_authentication_error_retries(x) ==
    IF x.attempt < max_retries - 1
    THEN [x EXCEPT !.pauses = Append(@, 2), !.attempt = @ + 1]
    ELSE [x EXCEPT !.status = "raised", !.error = "AuthenticationError"]

\* except AuthenticationError: raised at once
on_authentication_error(x) ==
    [x EXCEPT !.status = "raised", !.error = "AuthenticationError"]

\* except Exception: a pause of two seconds, or AIProcessingError with the
\* name of the service once the attempts are used up
on_exception(x) ==
    IF x.attempt < max_retries - 1
    THEN [x EXCEPT !.pauses = Append(@, 2), !.attempt = @ + 1]
    ELSE [x EXCEPT !.status = "raised", !.error = "AIProcessingError",
                   !.ai_service = x.provider]

\* one iteration of the loop of extract_document_data
extract_attempt(x, outcome, document_data) ==
    LET called == [x EXCEPT !.calls = IF calls_service(x.provider, outcome)
                                      THEN @ + 1 ELSE @,
                            !.history = Append(@, outcome)]
        e == _call_api(x.provider, outcome)
    IN IF e = None
       THEN [called EXCEPT !.status = "returned", !.result = document_data]
       ELSE IF e = "RateLimitError" THEN on_rate_limit(called)
       ELSE IF e = "AuthenticationError" THEN on_authentication_error(called)
       ELSE on_exception(called)

(***************************************************************************)
(* State.                                                                  *)
(***************************************************************************)
VARIABLES
    user_data,      \* context.user_data of the user
    tasks,          \* the handlers of the user suspended at an await
    sheets,         \* rows of every spreadsheet tab
    uploads,        \* files created in Drive, in order
    subfolders,     \* branches whose folder holds 'Sudah diinput'
    lastCommit,     \* the commit the last step started or finished, if any
    cancelHandled,  \* whether the last step handled the cancel command
    lastEvent,      \* what the last step handled, for the events singled out
    session_manager, \* the global SessionManager and the clock it reads
    ai_service,     \* the invocation of extract_document_data under way
    call            \* a function of the program applied to an argument

vars == <<user_data, tasks, sheets, uploads, subfolders, lastCommit,
          cancelHandled, lastEvent, session_manager, ai_service, call>>

\* no function applied: the function, its arguments, and what it returned
NoCall == [op |-> "none", number_str |-> << >>, expected_length |-> 0,
           raw_data |-> << >>, done |-> FALSE, result |-> << >>,
           document_data |-> NoDoc, raised |-> FALSE, valid |-> FALSE]

\* the event a step handled: its kind and whether the session it met held
\* a record
NoEvent == [kind |-> "other", had_record |-> FALSE]
Event(kind, ud) == [kind |-> kind, had_record |-> ud.document_data # NoDoc]

\* a suspended handler: what it awaits and, for a save, what the commit
\* still holds at the await (the answer of the lookup is used up by then)
ExtractTask == [kind |-> "extract", cm |-> NoCommit]
UploadTask(cm) ==
    [kind |-> "upload",
     cm |-> [cm EXCEPT !.lookup = "none", !.stored_before = FALSE]]
InFlight == BagCardinality(tasks)
HasFreeSlot == InFlight < MaxTasks
Suspend(task) == tasks (+) SetToBag({task})
Resume(task) == tasks (-) SetToBag({task})


RECURSIVE SumLen(_, _)
SumLen(sh, names) ==
    IF names = {} THEN 0
    ELSE LET n == CHOOSE x \in names : TRUE
         IN Len(sh[n]) + SumLen(sh, names \ {n})

TotalRows == SumLen(sheets, SheetNames)

\* a row written before the bot started, its NIK cell padded with a blank
ExistingRow == [to_sheet_row(DocKTP, "") EXCEPT ![7] = <<SP>> \o NIK1]

Init ==
    /\ user_data = EmptyData
    /\ tasks = EmptyBag
    /\ sheets = [n \in SheetNames |->
                    IF n = SHEET_NAME_MAP["BJ"] THEN <<ExistingRow>> ELSE << >>]
    /\ uploads = << >>
    /\ subfolders = {}
    /\ lastCommit = NoCommit
    /\ cancelHandled = FALSE
    /\ lastEvent = NoEvent
    /\ session_manager = NoManager
    /\ ai_service = NoExtraction
    /\ call = NoCall

(***************************************************************************)
(* Message handlers (handlers/messages.py).                                *)
(***************************************************************************)
\* the captions sent with a photo, as sent, and their characters
Captions == {"Toko Jaya", " Toko Jaya "}
caption_chars ==
    ("Toko Jaya" :> <<84, 111, 107, 111, SP, 74, 97, 121, 97>>)
    @@ (" Toko Jaya " :> <<SP, 84, 111, 107, 111, SP, 74, 97, 121, 97, SP>>)

\* a caption kept as it was sent
caption_as_sent(caption) == caption

\* update.message.caption.strip()
strip_caption(caption) ==
    CHOOSE u \in DOMAIN caption_chars :
        caption_chars[u] = Strip(caption_chars[caption])

\* handle_photo_message for a photo with the caption given, valid when the
\* file passes the validation
PhotoMessageOf(caption, valid) ==
    /\ IF ~valid
       THEN /\ \E sent \in BOOLEAN : user_data' = handle_error(user_data, sent)
            /\ lastEvent' = NoEvent
       ELSE /\ LET u0 == _init_user_session(user_data, "photo")
                   u1 == _set_session_data(u0, "file_id", "photo1")
                   u2 == IF caption # None
                         THEN _set_session_data(u1, "nama_toko",
                                                strip_caption(caption))
                         ELSE u1
               IN user_data' = _set_session_state(u2, "awaiting_branch")
            /\ lastEvent' = Event("intake", user_data)
    /\ lastCommit' = NoCommit
    /\ cancelHandled' = FALSE
    /\ UNCHANGED <<session_manager, ai_service, call>>
    /\ UNCHANGED <<tasks, sheets, uploads, subfolders>>

\* handle_photo_message
PhotoMessage ==
    \E caption \in Captions, valid \in BOOLEAN : PhotoMessageOf(caption, valid)

\* handle_pdf_message
PdfMessage ==
    /\ \E valid \in BOOLEAN :
         IF ~valid
         THEN /\ \E sent \in BOOLEAN : user_data' = handle_error(user_data, sent)
              /\ lastEvent' = NoEvent
         ELSE /\ LET u0 == _init_user_session(user_data, "pdf")
                     u1 == _set_session_data(u0, "file_id", "pdf1")
                     u2 == _set_session_data(u1, "original_filename", "doc.pdf")
                 IN user_data' = _set_session_state(u2, "awaiting_branch")
              /\ lastEvent' = Event("intake", user_data)
    /\ lastCommit' = NoCommit
    /\ cancelHandled' = FALSE
    /\ UNCHANGED <<session_manager, ai_service, call>>
    /\ UNCHANGED <<tasks, sheets, uploads, subfolders>>

(***************************************************************************)
(* Command handlers (handlers/commands.py).                                *)
(***************************************************************************)
\* start_command
StartCommand ==
    /\ user_data' = _clear_user_session(user_data)
    /\ lastCommit' = NoCommit
    /\ cancelHandled' = FALSE
    /\ lastEvent' = NoEvent
    /\ UNCHANGED <<session_manager, ai_service, call>>
    /\ UNCHANGED <<tasks, sheets, uploads, subfolders>>

\* cancel_command
CancelCommand ==
    /\ IF user_data = EmptyData
       THEN user_data' = user_data
       ELSE user_data' = _clear_user_session(user_data)
    /\ lastCommit' = NoCommit
    /\ cancelHandled' = TRUE
    /\ lastEvent' = Event("cancel", user_data)
    /\ UNCHANGED <<session_manager, ai_service, call>>
    /\ UNCHANGED <<tasks, sheets, uploads, subfolders>>


(***************************************************************************)
(* Callback handlers (handlers/callbacks.py).  handle_callback_query reads *)
(* the session state first, which clears an expired session and raises     *)
(* SessionExpiredError; it then routes on the callback data alone.         *)
(***************************************************************************)
NotExpired == \E elapsed \in Elapsed : ~_is_session_expired(user_data, elapsed)

\* handle_callback_query on an expired session, whatever the button:
\* _get_session_state raises SessionExpiredError, handle_error reports it
CallbackExpired ==
    /\ \E elapsed \in Elapsed, sent \in BOOLEAN :
         LET r == _get_user_session(user_data, elapsed)
         IN /\ r.raised
            /\ user_data' = handle_error(r.ud, sent)
    /\ lastCommit' = NoCommit
    /\ cancelHandled' = FALSE
    /\ lastEvent' = Event("expired", user_data)
    /\ UNCHANGED <<session_manager, ai_service, call>>
    /\ UNCHANGED <<tasks, sheets, uploads, subfolders>>

BranchCodes == DOMAIN FOLDER_MAP \cup {"ZZ"}

\* a rejected branch code that resets the session
_invalid_branch_resets(ud) == _clear_user_session(ud)

\* _handle_branch_selection for a code that is not a branch: the error
\* message replaces the keyboard, the session is left alone
_invalid_branch(ud) == ud

\* _handle_branch_selection, with _process_photo_workflow up to the
\* recognition call and _process_pdf_workflow
BranchSelectionOf(branch_code) ==
    /\ NotExpired
    /\ IF ~is_valid_branch(branch_code)
       THEN /\ user_data' = _invalid_branch(user_data)
            /\ tasks' = tasks
            /\ lastEvent' = Event("branch_invalid", user_data)
       ELSE /\ lastEvent' = NoEvent
            /\ LET u1 == _set_session_data(user_data, "branch", branch_code)
                   u2 == _set_session_data(u1, "sheet_name",
                                           SHEET_NAME_MAP[branch_code])
                   r == _process_document_and_show_preview(u2)
               IN IF u2.state = "awaiting_branch_edit"
                  THEN /\ user_data' = r.ud
                       /\ tasks' = tasks
                  ELSE IF u2.workflow_type = "photo"
                  THEN IF u2.file_id = None
                       THEN /\ user_data' = _clear_user_session(u2)
                            /\ tasks' = tasks
                       ELSE /\ HasFreeSlot
                            /\ user_data' = u2
                            /\ tasks' = Suspend(ExtractTask)
                  ELSE IF u2.workflow_type = "pdf"
                  THEN /\ user_data' = _set_session_state(u2, "awaiting_pdf_name")
                       /\ tasks' = tasks
                  ELSE /\ user_data' = _clear_user_session(u2)
                       /\ tasks' = tasks
    /\ lastCommit' = NoCommit
    /\ cancelHandled' = FALSE
    /\ UNCHANGED <<session_manager, ai_service, call>>
    /\ UNCHANGED <<sheets, uploads, subfolders>>

\* the button of any branch code
BranchSelection ==
    \E branch_code \in BranchCodes : BranchSelectionOf(branch_code)

\* _process_photo_workflow once the recognition call has returned the
\* record given (NoDoc: nothing, or an error raised), elapsed minutes after
\* the last activity of the session
ExtractDoneOf(task, document_data, elapsed) ==
    /\ task.kind = "extract"
    /\ tasks' = Resume(task)
    /\ IF document_data = NoDoc \/ _is_session_expired(user_data, elapsed)
       THEN /\ user_data' = _clear_user_session(user_data)
            /\ lastEvent' = NoEvent
       ELSE LET u1 == _set_session_data(user_data, "document_data",
                                        document_data)
                u2 == _set_session_data(u1, "extracted_data",
                                        to_dict(document_data))
                r == _process_document_and_show_preview(u2)
            IN IF document_data.document_type = "NPWP"
               THEN /\ user_data' = _set_session_state(u2, "awaiting_npwp_type")
                    /\ lastEvent' = NoEvent
               ELSE /\ user_data' = r.ud
                    /\ lastEvent' = Event("preview", user_data)
    /\ lastCommit' = NoCommit
    /\ cancelHandled' = FALSE
    /\ UNCHANGED <<session_manager, ai_service, call>>
    /\ UNCHANGED <<sheets, uploads, subfolders>>

ExtractDone(task) ==
    \E document_data \in ExtractedDocs \cup {NoDoc}, elapsed \in Elapsed :
        ExtractDoneOf(task, document_data, elapsed)

\* _handle_npwp_type_selection
NpwpTypeSelection ==
    /\ NotExpired
    /\ \E npwp_type \in NPWPType :
         LET r == _process_document_and_show_preview(
                     _set_session_data(user_data, "npwp_type", npwp_type))
         IN /\ user_data' = r.ud
    /\ lastCommit' = NoCommit
    /\ cancelHandled' = FALSE
    /\ lastEvent' = NoEvent
    /\ UNCHANGED <<session_manager, ai_service, call>>
    /\ UNCHANGED <<tasks, sheets, uploads, subfolders>>

\* the outcomes of the calls of a commit up to the append; a call that
\* follows the call that aborts the commit is not made
CommitOutcomes ==
    {o \in [initOk : BOOLEAN, lookupOut : StoreOutcome, appendOk : BOOLEAN] :
        /\ ~o.initOk => o.lookupOut = "ok" /\ o.appendOk
        /\ o.lookupOut = "http" => o.appendOk}

\* the outcomes of the calls of the upload: download, files().list, folder
\* create, files().create; nothing is called after the first failure
UploadOutcomes ==
    {o \in [dl : BOOLEAN, fl : BOOLEAN, fc : BOOLEAN, up : BOOLEAN] :
        /\ ~o.dl => o.fl /\ o.fc /\ o.up
        /\ ~o.fl => o.fc /\ o.up
        /\ ~o.fc => o.up}

\* _handle_save_confirmation (bypass = FALSE) and _handle_force_save
\* (bypass = TRUE), up to the download await of the upload or to the end
SaveHandler(bypass) ==
    /\ NotExpired
    /\ \E o \in CommitOutcomes :
         LET cm == save_photo_and_data(user_data, bypass, sheets,
                                       o.initOk, o.lookupOut, o.appendOk)
         IN /\ cm.append = "ok" => TotalRows < MaxRows
            /\ sheets' = _save_to_spreadsheet(sheets, cm, user_data)
            /\ IF cm.result = "pending"
               THEN /\ HasFreeSlot
                    /\ tasks' = Suspend(UploadTask(cm))
                    /\ user_data' = user_data
               ELSE /\ tasks' = tasks
                    /\ user_data' = _handle_save_result(user_data, cm.result)
            /\ lastCommit' = cm
            /\ cancelHandled' = FALSE
            /\ lastEvent' = NoEvent
            /\ UNCHANGED <<session_manager, ai_service, call>>
    /\ UNCHANGED <<uploads, subfolders>>

SaveConfirmation == SaveHandler(FALSE)

ForceSave == SaveHandler(TRUE)

\* the save handlers once the file download has returned: the upload,
\* then _handle_save_result
UploadDone(task) ==
    /\ task.kind = "upload"
    /\ tasks' = Resume(task)
    /\ \E o \in UploadOutcomes :
         LET r == _upload_file_to_drive(task.cm, subfolders, o.dl, o.fl, o.fc, o.up)
         IN /\ subfolders' = r.subf
            /\ uploads' = IF r.uploaded
                          THEN Append(uploads, [folder |-> FOLDER_MAP[r.cm.branch],
                                                file_id |-> r.cm.file_id])
                          ELSE uploads
            /\ user_data' = _handle_save_result(user_data, r.cm.result)
            /\ sheets' = sheets_after_upload(sheets, r.cm)
            /\ lastCommit' = r.cm
            /\ cancelHandled' = FALSE
            /\ lastEvent' = NoEvent
            /\ UNCHANGED <<session_manager, ai_service, call>>

EditFields == {"nama"}

\* the fields edited where the text handler runs
EditableFields == {"nama", "nik", "npwp_15"}

\* _handle_edit_request
EditRequest ==
    /\ NotExpired
    /\ user_data' = _set_session_state(user_data, "selecting_edit_field")
    /\ lastCommit' = NoCommit
    /\ cancelHandled' = FALSE
    /\ lastEvent' = NoEvent
    /\ UNCHANGED <<session_manager, ai_service, call>>
    /\ UNCHANGED <<tasks, sheets, uploads, subfolders>>

\* _handle_field_edit, for the buttons edit_<field> of the given fields and
\* edit_location
FieldEditOf(fields) ==
    /\ NotExpired
    /\ \E field_name \in fields \cup {"location"} :
         IF field_name = "location"
         THEN /\ user_data' = _set_session_state(user_data, "awaiting_branch_edit")
         ELSE /\ user_data' = _set_session_state(
                                 _set_session_data(user_data, "edit_field", field_name),
                                 "awaiting_edit_input")
    /\ lastCommit' = NoCommit
    /\ cancelHandled' = FALSE
    /\ lastEvent' = NoEvent
    /\ UNCHANGED <<session_manager, ai_service, call>>
    /\ UNCHANGED <<tasks, sheets, uploads, subfolders>>

FieldEdit == FieldEditOf(EditFields)

\* _handle_cancel_edit
CancelEdit ==
    /\ NotExpired
    /\ LET r == _process_document_and_show_preview(user_data)
       IN /\ user_data' = r.ud
    /\ lastCommit' = NoCommit
    /\ cancelHandled' = FALSE
    /\ lastEvent' = NoEvent
    /\ UNCHANGED <<session_manager, ai_service, call>>
    /\ UNCHANGED <<tasks, sheets, uploads, subfolders>>

\* _handle_cancel_operation
CancelOperation ==
    /\ NotExpired
    /\ user_data' = _clear_user_session(user_data)
    /\ lastCommit' = NoCommit
    /\ cancelHandled' = FALSE
    /\ lastEvent' = Event("cancel", user_data)
    /\ UNCHANGED <<session_manager, ai_service, call>>
    /\ UNCHANGED <<tasks, sheets, uploads, subfolders>>

\* _handle_unknown_callback
UnknownCallback ==
    /\ NotExpired
    /\ user_data' = _clear_user_session(user_data)
    /\ lastCommit' = NoCommit
    /\ cancelHandled' = FALSE
    /\ lastEvent' = NoEvent
    /\ UNCHANGED <<session_manager, ai_service, call>>
    /\ UNCHANGED <<tasks, sheets, uploads, subfolders>>

(***************************************************************************)
(* handle_text_message (handlers/messages.py), by the state it meets.      *)
(***************************************************************************)
NIK2 == <<3,2,0,1,0,1,1,2,0,5,8,5,0,0,0,2>>
\* a tax number typed as 09.876.543.2-109.876
NPWP15BFormatted ==
    <<0,9,DOT,8,7,6,DOT,5,4,3,DOT,2,DASH,1,0,9,DOT,8,7,6>>

\* the numbers typed: a NIK in groups of four, a NIK after a blank, a NIK
\* short of a digit, a NIK of province 99, a tax number with dots and dash
NumberTexts ==
    {SubSeq(NIK2, 1, 4) \o <<SP>> \o SubSeq(NIK2, 5, 16),
     <<SP>> \o NIK2,
     SubSeq(NIK2, 1, 15),
     <<9, 9>> \o SubSeq(NIK2, 3, 16),
     NPWP15BFormatted}

EditTexts(field) ==
    CASE field = "nama" -> DOMAIN chars
      [] field = "alamat" -> AlamatTexts
      [] field = "document_type" -> TypeTexts
      [] OTHER -> NumberTexts

\* the names typed for a PDF: one letter, one letter between spaces, two
\* letters, a word, 100 letters, 101 letters
PdfNames ==
    {<<65>>, <<32, 65, 32>>, <<65, 65>>, <<65, 107, 116, 97>>,
     [i \in 1..100 |-> 65], [i \in 1..101 |-> 65]}

\* handle_text_message on an expired session
TextExpired ==
    /\ \E elapsed \in Elapsed, sent \in BOOLEAN :
         LET r == _get_user_session(user_data, elapsed)
         IN /\ r.raised
            /\ user_data' = handle_error(r.ud, sent)
    /\ lastCommit' = NoCommit
    /\ cancelHandled' = FALSE
    /\ lastEvent' = Event("expired", user_data)
    /\ UNCHANGED <<session_manager, ai_service, call>>
    /\ UNCHANGED <<tasks, sheets, uploads, subfolders>>

\* handle_text_message with no state: _handle_no_active_session
TextNoSession ==
    /\ NotExpired
    /\ user_data.state = None
    /\ user_data' = user_data
    /\ lastCommit' = NoCommit
    /\ cancelHandled' = FALSE
    /\ lastEvent' = NoEvent
    /\ UNCHANGED <<session_manager, ai_service, call>>
    /\ UNCHANGED <<tasks, sheets, uploads, subfolders>>

\* handle_text_message in awaiting_pdf_name
PdfNamingOf(text, initOk) ==
    /\ NotExpired
    /\ user_data.state = "awaiting_pdf_name"
    /\ user_data' = _handle_pdf_naming(user_data, text)
    /\ lastCommit' = NoCommit
    /\ cancelHandled' = FALSE
    /\ lastEvent' =
          IF Len(Strip(text)) < 2 \/ Len(Strip(text)) > 100
          THEN Event("pdf_name_rejected", user_data)
          ELSE IF save_pdf_to_drive(ContextArg(user_data), initOk).status
                     = "success"
          THEN Event("pdf_saved", user_data)
          ELSE Event("pdf_failed", user_data)
    /\ UNCHANGED <<session_manager, ai_service, call>>
    /\ UNCHANGED <<tasks, sheets, uploads, subfolders>>

PdfNaming ==
    \E text \in PdfNames, initOk \in BOOLEAN : PdfNamingOf(text, initOk)

\* handle_text_message in awaiting_edit_input
DataEdit ==
    /\ NotExpired
    /\ user_data.state = "awaiting_edit_input"
    /\ \E text \in EditTexts(user_data.edit_field) :
         LET r == _handle_data_edit(user_data, text)
         IN /\ user_data' = r.ud
            /\ lastEvent' = [NoEvent EXCEPT !.kind = r.outcome]
    /\ lastCommit' = NoCommit
    /\ cancelHandled' = FALSE
    /\ UNCHANGED <<session_manager, ai_service, call>>
    /\ UNCHANGED <<tasks, sheets, uploads, subfolders>>

\* handle_text_message in any other state: _handle_unexpected_text
UnexpectedText ==
    /\ NotExpired
    /\ user_data.state \notin {None, "awaiting_pdf_name", "awaiting_edit_input"}
    /\ user_data' = user_data
    /\ lastCommit' = NoCommit
    /\ cancelHandled' = FALSE
    /\ lastEvent' = NoEvent
    /\ UNCHANGED <<session_manager, ai_service, call>>
    /\ UNCHANGED <<tasks, sheets, uploads, subfolders>>

Next ==
    \/ PhotoMessage
    \/ PdfMessage
    \/ StartCommand
    \/ CancelCommand
    \/ CallbackExpired
    \/ BranchSelection
    \/ NpwpTypeSelection
    \/ SaveConfirmation
    \/ ForceSave
    \/ EditRequest
    \/ FieldEdit
    \/ CancelEdit
    \/ CancelOperation
    \/ UnknownCallback
    \/ \E task \in BagToSet(tasks) : ExtractDone(task)
    \/ \E task \in BagToSet(tasks) : UploadDone(task)

Spec == Init /\ [][Next]_vars

(***************************************************************************)
(* The session handlers alone, the text handler among them and every       *)
(* editable field offered; the save handlers are left to Spec.             *)
(***************************************************************************)
FieldEditAny == FieldEditOf(EditableFields)

BranchSelectionBounded ==
    BranchSelection /\ BagCardinality(tasks') <= MaxSessionTasks

NextSession ==
    \/ PhotoMessage
    \/ PdfMessage
    \/ StartCommand
    \/ CancelCommand
    \/ CallbackExpired
    \/ BranchSelectionBounded
    \/ NpwpTypeSelection
    \/ EditRequest
    \/ FieldEditAny
    \/ CancelEdit
    \/ CancelOperation
    \/ UnknownCallback
    \/ TextExpired
    \/ TextNoSession
    \/ PdfNaming
    \/ DataEdit
    \/ UnexpectedText
    \/ \E task \in BagToSet(tasks) : ExtractDone(task)

SpecSession == Init /\ [][NextSession]_vars

(***************************************************************************)
(* save_photo_and_data called on its own, again and again on one session:  *)
(* each call runs to its end before the next starts, and the caller leaves *)
(* the session as it is.                                                   *)
(***************************************************************************)
\* a KTP whose NIK the recognition could not read (_clean_and_validate_number
\* returns None; the validation errors are only logged)
DocKTPNoNik == [DocKTP EXCEPT !.nik = NoNum]

CommitDocs ==
    {DocKTP, DocKTPNoNik}
    \cup {[DocNPWP EXCEPT !.npwp_type = t] : t \in NPWPType}

\* the session a preview leaves: the record, the branch, the file if any
CommitSession(doc, branch, file_id) ==
    [EmptyData EXCEPT !.workflow_type = "photo",
                      !.state = "awaiting_confirmation",
                      !.last_activity = Stamp,
                      !.file_id = file_id,
                      !.branch = branch,
                      !.sheet_name = SHEET_NAME_MAP[branch],
                      !.document_data = doc,
                      !.extracted_data = to_dict(doc),
                      !.npwp_type = doc.npwp_type]

InitCommit ==
    /\ user_data \in {CommitSession(doc, branch, file_id) :
                         doc \in CommitDocs, branch \in DOMAIN FOLDER_MAP,
                         file_id \in {None, "photo1"}}
    /\ tasks = EmptyBag
    /\ sheets \in {[n \in SheetNames |-> << >>],
                    [n \in SheetNames |->
                        IF n = SHEET_NAME_MAP["BJ"] THEN <<ExistingRow>> ELSE << >>]}
    /\ uploads = << >>
    /\ subfolders = {}
    /\ lastCommit = NoCommit
    /\ cancelHandled = FALSE
    /\ lastEvent = NoEvent
    /\ session_manager = NoManager
    /\ ai_service = NoExtraction
    /\ call = NoCall

\* save_photo_and_data from its first line to its return
CommitCall(bypass) ==
    /\ \E o \in CommitOutcomes, u \in UploadOutcomes :
         LET cm == save_photo_and_data(user_data, bypass, sheets,
                                       o.initOk, o.lookupOut, o.appendOk)
             appended == _save_to_spreadsheet(sheets, cm, user_data)
             r == _upload_file_to_drive(cm, subfolders, u.dl, u.fl, u.fc, u.up)
         IN /\ cm.append = "ok" => TotalRows < MaxRows
            /\ IF cm.result = "pending"
               THEN /\ sheets' = sheets_after_upload(appended, r.cm)
                    /\ subfolders' = r.subf
                    /\ uploads' = IF r.uploaded
                                  THEN Append(uploads,
                                              [folder |-> FOLDER_MAP[r.cm.branch],
                                               file_id |-> r.cm.file_id])
                                  ELSE uploads
                    /\ lastCommit' = r.cm
               ELSE /\ u.dl /\ u.fl /\ u.fc /\ u.up
                    /\ sheets' = appended
                    /\ lastCommit' = cm
                    /\ UNCHANGED <<uploads, subfolders>>
    /\ UNCHANGED <<user_data, tasks, cancelHandled, lastEvent, session_manager,
                   ai_service, call>>

Commit == CommitCall(FALSE)

CommitBypassing == CommitCall(TRUE)

NextCommit == Commit \/ CommitBypassing

SpecCommit == InitCommit /\ [][NextCommit]_vars

(***************************************************************************)
(* The SessionManager used on its own: get_session, the methods of the     *)
(* session it returned, clear_session, and the passing of time.            *)
(***************************************************************************)
MaxNow == 62

handler_vars == <<user_data, tasks, sheets, uploads, subfolders, lastCommit,
                  cancelHandled, lastEvent>>

\* a manager whose last get_session is forgotten
Forgotten(m) == [m EXCEPT !.found = NoSession, !.returned = NoSession]

GetSession ==
    /\ \E user_id \in UserIds :
         session_manager' = get_session(session_manager, user_id)
    /\ UNCHANGED <<handler_vars, ai_service, call>>

SetWorkflow ==
    /\ \E user_id \in UserIds, workflow_type \in {"photo", "pdf"} :
         /\ session_manager._sessions[user_id] # NoSession
         /\ session_manager' =
               Forgotten([session_manager EXCEPT !._sessions[user_id] =
                            set_workflow(@, workflow_type, session_manager.now)])
    /\ UNCHANGED <<handler_vars, ai_service, call>>

SetState ==
    /\ \E user_id \in UserIds,
          new_state \in {"awaiting_confirmation", "idle"} :
         /\ session_manager._sessions[user_id] # NoSession
         /\ session_manager' =
               Forgotten([session_manager EXCEPT !._sessions[user_id] =
                            set_state(@, new_state, session_manager.now)])
    /\ UNCHANGED <<handler_vars, ai_service, call>>

\* session.branch = ... : a plain assignment, last_activity is not touched
SetBranch ==
    /\ \E user_id \in UserIds :
         /\ session_manager._sessions[user_id] # NoSession
         /\ session_manager' =
               Forgotten([session_manager EXCEPT !._sessions[user_id].branch = "BJ"])
    /\ UNCHANGED <<handler_vars, ai_service, call>>

ClearSession ==
    /\ \E user_id \in UserIds :
         session_manager' = clear_session(session_manager, user_id)
    /\ UNCHANGED <<handler_vars, ai_service, call>>

\* time passes: a minute, or the length of the timeout
Tick ==
    /\ \E d \in {1, SESSION_TIMEOUT_MINUTES} :
         /\ session_manager.now + d <= MaxNow
         /\ session_manager' =
               Forgotten([session_manager EXCEPT !.now = @ + d])
    /\ UNCHANGED <<handler_vars, ai_service, call>>

NextManager ==
    \/ GetSession
    \/ SetWorkflow
    \/ SetState
    \/ SetBranch
    \/ ClearSession
    \/ Tick

SpecManager == Init /\ [][NextManager]_vars

(***************************************************************************)
(* extract_document_data on its own: an invocation is entered, its         *)
(* attempts run one after the other, and the next invocation may follow.   *)
(***************************************************************************)
\* AIService() under a setting of ACTIVE_AI_SERVICE
AIService(provider) == [NoExtraction EXCEPT !.provider = provider]

InitExtract ==
    /\ user_data = EmptyData
    /\ tasks = EmptyBag
    /\ sheets = [n \in SheetNames |-> << >>]
    /\ uploads = << >>
    /\ subfolders = {}
    /\ lastCommit = NoCommit
    /\ cancelHandled = FALSE
    /\ lastEvent = NoEvent
    /\ session_manager = NoManager
    /\ ai_service \in {AIService(provider) : provider \in Providers}
    /\ call = NoCall

\* extract_document_data is called
ExtractStart ==
    /\ ai_service.status # "running"
    /\ ai_service' = NewExtraction(ai_service.provider)
    /\ UNCHANGED <<handler_vars, session_manager, call>>

\* one iteration of its loop
ExtractAttempt ==
    /\ ai_service.status = "running"
    /\ \E outcome \in OutcomesOf(ai_service.provider),
          document_data \in ExtractedDocs :
         ai_service' = extract_attempt(ai_service, outcome, document_data)
    /\ UNCHANGED <<handler_vars, session_manager, call>>

NextExtract ==
    \/ ExtractStart
    \/ ExtractAttempt

SpecExtract == InitExtract /\ [][NextExtract]_vars

\* the coroutine is awaited by its caller and every call and pause of an
\* iteration returns: an iteration that can run does run
SpecExtractFair == SpecExtract /\ WF_vars(ExtractAttempt)

(***************************************************************************)
(* _clean_and_validate_number and _parse_ai_response applied on their own  *)
(* to the values a response of the recognition service can hold.           *)
(***************************************************************************)
\* the longest run of digits in a raw value
MaxDigits == 18

\* a repair that takes the expected length and nothing else
_clean_and_validate_number_strict(number_str, expected_length) ==
    LET cleaned == SelectSeq(number_str, IsDigit)
    IN IF Len(cleaned) = expected_length THEN cleaned ELSE NoNum

\* a repair for 15 digits that keeps sixteen digits as they are
_clean_and_validate_number_no_strip(number_str, expected_length) ==
    LET cleaned == SelectSeq(number_str, IsDigit)
    IN IF expected_length = 15 /\ Len(cleaned) = 16 THEN cleaned
       ELSE _clean_and_validate_number_strict(number_str, expected_length)

\* AIService._clean_and_validate_number; None is the empty value
_clean_and_validate_number(number_str, expected_length) ==
    LET cleaned == SelectSeq(number_str, IsDigit)
    IN IF number_str = NoNum THEN NoNum
       ELSE IF cleaned = << >> THEN NoNum
       ELSE IF expected_length = 15
       THEN IF Len(cleaned) = 15 THEN cleaned
            ELSE IF Len(cleaned) = 16 /\ Head(cleaned) = 0 THEN Tail(cleaned)
            ELSE NoNum
       ELSE IF expected_length = 16
       THEN IF Len(cleaned) = 16 THEN cleaned
            ELSE IF Len(cleaned) = 15 THEN <<0>> \o cleaned
            ELSE NoNum
       ELSE IF Len(cleaned) # expected_length THEN NoNum
       ELSE cleaned

\* DocumentData._clean_number, run by __post_init__ on a populated number
_clean_number(number_str) == SelectSeq(number_str, IsDigit)

\* the document types a response names, and str.upper().strip() of them
DocTypeTexts == {"KTP", "NPWP", "npwp ", "SIM"}
upper_strip ==
    ("KTP" :> "KTP") @@ ("NPWP" :> "NPWP") @@ ("npwp " :> "NPWP")
    @@ ("SIM" :> "SIM")

\* AIService._parse_ai_response: the record, or AIProcessingError raised; a
\* key of raw_data that is absent holds None
_parse_ai_response(raw_data) ==
    LET failed == [raised |-> TRUE, document_data |-> NoDoc]
        doc_type == upper_strip[raw_data.document_type]
        nama == strip_text(raw_data.nama)
        alamat == IF raw_data.alamat \in {None, ""} THEN None
                  ELSE strip_text(strip_text(raw_data.alamat))
        nik == IF doc_type = "KTP"
               THEN _clean_and_validate_number(raw_data.nik, 16) ELSE NoNum
        npwp_15 == IF doc_type = "NPWP"
                   THEN _clean_and_validate_number(raw_data.npwp_15, 15)
                   ELSE NoNum
        npwp_16 == IF doc_type = "NPWP"
                   THEN _clean_and_validate_number(raw_data.npwp_16, 16)
                   ELSE NoNum
    IN IF raw_data.document_type = None \/ raw_data.nama = None THEN failed
       ELSE IF doc_type \notin {"KTP", "NPWP"} THEN failed
       ELSE IF nama = "" THEN failed
       ELSE [raised |-> FALSE,
             document_data |->
                [NoDoc EXCEPT !.document_type = doc_type,
                              !.nama = nama,
                              !.alamat = alamat,
                              !.nik = _clean_number(nik),
                              !.npwp_15 = _clean_number(npwp_15),
                              !.npwp_16 = _clean_number(npwp_16)]]

\* n digits, the first of them lead
Digits(n, lead) == [i \in 1..n |-> IF i = 1 THEN lead ELSE i % 10]

\* the digits at places a..b of a run, as many as it has
Part(digits, a, b) ==
    IF a > Len(digits) THEN << >>
    ELSE SubSeq(digits, a, IF b < Len(digits) THEN b ELSE Len(digits))

\* a run of digits as the service may write it: bare, with the dots and the
\* dash of a printed NPWP, or after a blank
Written(digits, style) ==
    CASE style = "bare" -> digits
      [] style = "blank" -> <<SP>> \o digits
      [] style = "printed" ->
            Part(digits, 1, 2) \o <<DOT>> \o Part(digits, 3, 9)
            \o <<DASH>> \o Part(digits, 10, Len(digits))

\* the raw values of a number field: None, and runs of up to MaxDigits digits
RawNumbers ==
    {Written(Digits(n, lead), style) :
        n \in 0..MaxDigits, lead \in {0, 8}, style \in {"bare", "blank", "printed"}}

\* the raw values used where a whole response is parsed
RawSample ==
    {NoNum, Digits(14, 8), Digits(15, 8), Digits(16, 0), Digits(16, 8),
     Digits(17, 0), Written(Digits(15, 0), "printed")}

\* the responses parsed
RawResponses ==
    {[document_type |-> t, nama |-> n, alamat |-> l,
      nik |-> k, npwp_15 |-> a, npwp_16 |-> b] :
        t \in DocTypeTexts \cup {None}, n \in {" Siti ", "  ", None},
        l \in {None, " Siti "},
        k \in {NoNum, Digits(15, 3), Digits(16, 3)},
        a \in RawSample, b \in {NoNum, Digits(15, 8), Digits(17, 8)}}

InitRepair ==
    /\ user_data = EmptyData
    /\ tasks = EmptyBag
    /\ sheets = [n \in SheetNames |-> << >>]
    /\ uploads = << >>
    /\ subfolders = {}
    /\ lastCommit = NoCommit
    /\ cancelHandled = FALSE
    /\ lastEvent = NoEvent
    /\ session_manager = NoManager
    /\ ai_service = NoExtraction
    /\ call \in {[NoCall EXCEPT !.op = "_clean_and_validate_number",
                                !.number_str = number_str,
                                !.expected_length = expected_length] :
                    number_str \in RawNumbers, expected_length \in {15, 16}}
                \cup {[NoCall EXCEPT !.op = "_parse_ai_response",
                                     !.raw_data = raw_data] :
                         raw_data \in RawResponses}

\* _clean_and_validate_number(number_str, expected_length) returns
CleanAndValidateNumber ==
    /\ call.op = "_clean_and_validate_number"
    /\ ~call.done
    /\ call' = [call EXCEPT !.done = TRUE,
                            !.result = _clean_and_validate_number(
                                          call.number_str, call.expected_length)]
    /\ UNCHANGED <<handler_vars, session_manager, ai_service>>

\* _parse_ai_response(raw_data) returns or raises
ParseAiResponse ==
    /\ call.op = "_parse_ai_response"
    /\ ~call.done
    /\ LET r == _parse_ai_response(call.raw_data)
       IN call' = [call EXCEPT !.done = TRUE, !.raised = r.raised,
                               !.document_data = r.document_data]
    /\ UNCHANGED <<handler_vars, session_manager, ai_service>>

NextRepair ==
    \/ CleanAndValidateNumber
    \/ ParseAiResponse

SpecRepair == InitRepair /\ [][NextRepair]_vars

(***************************************************************************)
(* validate_nik applied on its own to 16-digit strings.                    *)
(***************************************************************************)
\* the two digits of a number below 100
TwoDigits(n) == <<n \div 10, n % 10>>

\* a NIK of province p born on day d of month m of year y, its other digits f
Nik(p, d, m, y, f) ==
    TwoDigits(p) \o <<f, f, f, f>> \o TwoDigits(d) \o TwoDigits(m)
    \o TwoDigits(y) \o <<f, f, f, f>>

\* the strings validated: "0" * 16 and "1" * 16 are Nik(0, 0, 0, 0, 0) and
\* Nik(11, 11, 11, 11, 1)
NikProvinces == {0, 10, 11, 19, 20, 32, 94, 95}
NikDays == {0, 1, 11, 31, 32, 40, 41, 71, 72}
NikMonths == {0, 1, 11, 12, 13}
NikYears == {0, 11, 25, 26, 50, 51, 99}
NikInputs ==
    {Nik(p, d, m, y, f) :
        p \in NikProvinces, d \in NikDays, m \in NikMonths, y \in NikYears,
        f \in {0, 1, 5}}
    \cup {[i \in 1..16 |-> d] : d \in 0..9}

InitValidate ==
    /\ user_data = EmptyData
    /\ tasks = EmptyBag
    /\ sheets = [n \in SheetNames |-> << >>]
    /\ uploads = << >>
    /\ subfolders = {}
    /\ lastCommit = NoCommit
    /\ cancelHandled = FALSE
    /\ lastEvent = NoEvent
    /\ session_manager = NoManager
    /\ ai_service = NoExtraction
    /\ call \in {[NoCall EXCEPT !.op = "validate_nik", !.number_str = nik] :
                    nik \in NikInputs}

\* validate_nik(nik) returns
ValidateNik ==
    /\ call.op = "validate_nik"
    /\ ~call.done
    /\ call' = [call EXCEPT !.done = TRUE,
                            !.valid = validate_nik(call.number_str)]
    /\ UNCHANGED <<handler_vars, session_manager, ai_service>>

NextValidate == ValidateNik

SpecValidate == InitValidate /\ [][NextValidate]_vars

(***************************************************************************)
(* The edit menu: _handle_edit_request with the keyboard it builds, the    *)
(* buttons of that keyboard, and the text typed for the field chosen, on a *)
(* session that shows its preview.                                         *)
(***************************************************************************)
\* field_map of _handle_edit_request, in its order
field_map == <<"document_type", "nama", "alamat", "nik", "npwp_15", "npwp_16">>

\* extracted_data[field] is truthy
Populated(extracted_data, field) ==
    /\ extracted_data.exists
    /\ IF field \in {"nik", "npwp_15", "npwp_16"}
       THEN extracted_data[field] # NoNum
       ELSE extracted_data[field] \notin {None, ""}

\* the fields whose buttons edit_<field> _handle_edit_request puts on the
\* keyboard, before the buttons edit_location and cancel_edit
edit_keyboard(extracted_data) ==
    LET offered(field) == Populated(extracted_data, field)
    IN SelectSeq(field_map, offered) \o <<"location", "cancel">>

\* _handle_edit_request
_handle_edit_request(ud) ==
    [ud |-> _set_session_state(ud, "selecting_edit_field"),
     keyboard |-> edit_keyboard(ud.extracted_data)]

\* the fields among the buttons of a keyboard
FieldsOn(keyboard) ==
    {keyboard[i] : i \in 1..Len(keyboard)} \ {"location", "cancel"}

InitEdit ==
    /\ user_data \in {CommitSession(doc, branch, "photo1") :
                         doc \in CommitDocs, branch \in DOMAIN SHEET_NAME_MAP}
    /\ tasks = EmptyBag
    /\ sheets = [n \in SheetNames |-> << >>]
    /\ uploads = << >>
    /\ subfolders = {}
    /\ lastCommit = NoCommit
    /\ cancelHandled = FALSE
    /\ lastEvent = NoEvent
    /\ session_manager = NoManager
    /\ ai_service = NoExtraction
    /\ call = NoCall

\* the edit button of the preview: _handle_edit_request
EditMenu ==
    /\ NotExpired
    /\ user_data.state = "awaiting_confirmation"
    /\ LET r == _handle_edit_request(user_data)
       IN /\ user_data' = r.ud
          /\ call' = [NoCall EXCEPT !.op = "_handle_edit_request",
                                    !.done = TRUE, !.result = r.keyboard]
    /\ lastCommit' = NoCommit
    /\ cancelHandled' = FALSE
    /\ lastEvent' = Event("edit_menu", user_data)
    /\ UNCHANGED <<session_manager, ai_service>>
    /\ UNCHANGED <<tasks, sheets, uploads, subfolders>>

\* a button edit_<field> or edit_location of the keyboard shown
EditButton ==
    /\ user_data.state = "selecting_edit_field"
    /\ call.op = "_handle_edit_request"
    /\ FieldEditOf(FieldsOn(call.result))

\* the button cancel_edit of the keyboard shown
EditBack ==
    /\ user_data.state = "selecting_edit_field"
    /\ CancelEdit

\* a branch button of the keyboard edit_location shows
BranchEdit ==
    /\ user_data.state = "awaiting_branch_edit"
    /\ BranchSelection

NextEdit ==
    \/ EditMenu
    \/ EditButton
    \/ EditBack
    \/ BranchEdit
    \/ DataEdit

SpecEdit == InitEdit /\ [][NextEdit]_vars

(***************************************************************************)
(* Two presses of the save button on one preview.  The application runs    *)
(* up to 256 updates concurrently (bot.py:90), so the handler of a second  *)
(* press starts while the first one waits for the file download of its     *)
(* upload; the calls to the store are synchronous, so the duplicate lookup *)
(* and the row append of one handler run without yielding.                 *)
(***************************************************************************)
SaveUpload == \E task \in BagToSet(tasks) : UploadDone(task)

NextRace == SaveConfirmation \/ SaveUpload

SpecRace == InitEdit /\ [][NextRace]_vars

(***************************************************************************)
(* Properties.                                                             *)
(***************************************************************************)
\* the state of a session; a cleared session is Idle
StateOf(ud) == IF ud.state = None THEN "idle" ELSE ud.state

\* the calls of the upload, sub-folder lookup and creation included
UploadSteps == {"get_file", "files.list", "folder.create", "files.create"}

\* the last step ran the first part of a commit and called the store
CommitStarted ==
    /\ lastCommit'.result # "none"
    /\ lastCommit'.upload = "none"
    /\ lastCommit'.calls # << >>

\* the last step resumed a handler that awaited the recognition call
ExtractionReturned ==
    /\ BagIn(ExtractTask, tasks)
    /\ tasks' = tasks (-) SetToBag({ExtractTask})

\* C1: a save pressed in awaiting_confirmation and answered 'duplicate
\* found' leaves the session in awaiting_duplicate_confirmation, still
\* holding the record, the branch and the file reference.
C1_DuplicateKeepsSession ==
    [][(/\ user_data.state = "awaiting_confirmation"
        /\ ~lastCommit'.bypass
        /\ lastCommit'.result = "duplicate_found")
       => (/\ user_data'.state = "awaiting_duplicate_confirmation"
           /\ user_data'.document_data = user_data.document_data
           /\ user_data'.branch = user_data.branch
           /\ user_data'.file_id = user_data.file_id)]_vars

\* C2: a force save pressed right after a duplicate was reported, no call
\* to the store failing, appends the row and makes no duplicate lookup.
C2_ForceSaveAfterDuplicate ==
    [][(/\ lastCommit.result = "duplicate_found"
        /\ lastCommit'.bypass
        /\ lastCommit'.result # "none"
        /\ lastCommit'.init # "fail"
        /\ lastCommit'.append # "fail")
       => (/\ lastCommit'.append = "ok"
           /\ lastCommit'.lookup \in {"none", "skipped"})]_vars

C4_AppendFirst ==
    /\ \A i \in 1..Len(lastCommit.calls) :
          lastCommit.calls[i] \in UploadSteps
          => (/\ lastCommit.append = "ok"
              /\ \E j \in 1..(i - 1) : lastCommit.calls[j] = "append")
    /\ lastCommit.append = "fail"
       => (/\ lastCommit.result = "error"
           /\ \A i \in 1..Len(lastCommit.calls) :
                 lastCommit.calls[i] \notin UploadSteps)
    /\ \A t \in BagToSet(tasks) : t.kind = "upload" => t.cm.append = "ok"

\* C4 witness: the append of a commit that has a file to upload failed
C4_Witness ==
    /\ lastCommit.append = "fail"
    /\ lastCommit.file_id # None
    /\ lastCommit.result = "error"

\* C5: when a step of the upload fails after the append succeeded, the
\* commit returns an error and the appended row is still in the tab.
C5_NoRollback ==
    lastCommit.upload = "fail"
    => (/\ lastCommit.result = "error"
        /\ lastCommit.append = "ok"
        /\ lastCommit.row >= 1
        /\ Len(sheets[lastCommit.sheet]) >= lastCommit.row)

\* C5 witness: an upload that failed after its row was appended
C5_Witness ==
    /\ lastCommit.upload = "fail"
    /\ lastCommit.append = "ok"
    /\ lastCommit.result = "error"
    /\ Len(sheets[lastCommit.sheet]) >= lastCommit.row

C7_OneAtATime == InFlight <= 1

\* C8: when the cancel command was handled while the recognition call was
\* outstanding and the call then returns, its result is discarded: the
\* session stays cleared.
C8_CancelDiscardsExtraction ==
    [][(cancelHandled /\ ExtractionReturned) => user_data' = EmptyData]_vars

\* C9: every change of the session state is a transition of the table (or
\* goes to Idle) and ends in a declared state.
C9_TransitionsInTable ==
    [][StateOf(user_data') # StateOf(user_data)
       => (/\ StateOf(user_data') \in SessionState
           /\ can_transition_to(StateOf(user_data), StateOf(user_data')))]_vars

\* C10: a commit that calls the store is started in awaiting_confirmation
\* when it does not bypass and in awaiting_duplicate_confirmation when it
\* does.
C10_SaveOnlyWhenConfirming ==
    [][CommitStarted
       => (IF lastCommit'.bypass
           THEN user_data.state = "awaiting_duplicate_confirmation"
           ELSE user_data.state = "awaiting_confirmation")]_vars

\* a commit all of whose calls to the store succeeded
AllCallsSucceeded(cm) ==
    /\ cm.result # "none"
    /\ cm.init = "ok"
    /\ cm.lookup \in {"ok", "skipped"}
    /\ cm.append # "fail"
    /\ cm.upload # "fail"

\* C11: when a commit that does not bypass has returned success and the
\* same record and branch are committed again without bypass, every call
\* to the store succeeding, the second commit returns 'duplicate found' and
\* changes nothing: no row, no file, no folder.
C11_CommitIdempotent ==
    [][(/\ ~lastCommit.bypass
        /\ AllCallsSucceeded(lastCommit)
        /\ lastCommit.result = "success"
        /\ ~lastCommit'.bypass
        /\ AllCallsSucceeded(lastCommit'))
       => (/\ lastCommit'.result = "duplicate_found"
           /\ sheets' = sheets
           /\ uploads' = uploads
           /\ subfolders' = subfolders)]_vars

\* the session keys an edit may write
EditKeys == {"state", "edit_field", "document_data", "extracted_data",
             "last_activity"}

C13_EditRejected ==
    [][lastEvent'.kind = "edit_rejected"
       => /\ user_data.state = "awaiting_edit_input"
          /\ user_data'.state = user_data.state
          /\ user_data'.edit_field = user_data.edit_field
          /\ user_data'.document_data = user_data.document_data
          /\ user_data'.extracted_data = user_data.extracted_data]_vars

\* a value has just been rejected for the pending field of a session that
\* holds a record
C13_Witness ==
    /\ lastEvent.kind = "edit_rejected"
    /\ user_data.state = "awaiting_edit_input"
    /\ user_data.edit_field \in EditableFields
    /\ user_data.document_data # NoDoc

\* a number field that is empty or holds exactly n digits
DigitsOrEmpty(v, n) == v = NoNum \/ (Len(v) = n /\ AllDigits(v))

\* C14: whenever the session holds a record, its nik and npwp_16, when
\* populated, are 16 digits and its npwp_15, when populated, is 15 digits,
\* with no other character.
C14_NumbersAreDigits ==
    user_data.document_data # NoDoc
    => /\ DigitsOrEmpty(user_data.document_data.nik, 16)
       /\ DigitsOrEmpty(user_data.document_data.npwp_15, 15)
       /\ DigitsOrEmpty(user_data.document_data.npwp_16, 16)

\* C15: once a photo or a PDF that passes the file validation has been taken
\* in, the session is in awaiting_branch with the new workflow type and file
\* reference, and holds no record, shadow map, branch, sheet name, entity
\* type or pending edit field; its store name is the caption of the new
\* photo, if any, and none for a PDF.
C15_IntakeDiscards ==
    lastEvent.kind = "intake"
    => /\ user_data.state = "awaiting_branch"
       /\ user_data.workflow_type \in {"photo", "pdf"}
       /\ user_data.file_id # None
       /\ user_data.document_data = NoDoc
       /\ user_data.extracted_data = NoDict
       /\ user_data.branch = None
       /\ user_data.sheet_name = None
       /\ user_data.npwp_type = None
       /\ user_data.edit_field = None
       /\ user_data.custom_filename = None
       /\ user_data.workflow_type = "pdf" => user_data.nama_toko = None
       /\ user_data.workflow_type = "photo"
            => /\ user_data.nama_toko \in Captions \cup {None}
               /\ user_data.original_filename = None

\* a PDF has been taken in by a session that held a record, and with it the
\* store name of the photo it came from
C15_Witness ==
    /\ lastEvent.kind = "intake"
    /\ lastEvent.had_record
    /\ user_data.workflow_type = "pdf"
    /\ user_data.state = "awaiting_branch"
    /\ user_data.nama_toko = None

\* C16: a branch button whose code is not a branch of the configuration
\* leaves the state, the branch and the sheet name of the session as they
\* were and starts no recognition call.
C16_InvalidBranch ==
    [][lastEvent'.kind = "branch_invalid"
       => /\ user_data'.state = user_data.state
          /\ user_data'.branch = user_data.branch
          /\ user_data'.sheet_name = user_data.sheet_name
          /\ tasks' = tasks]_vars

\* an unknown branch code has just been pressed by a session that waits for
\* its branch
C16_Witness ==
    /\ lastEvent.kind = "branch_invalid"
    /\ user_data.state = "awaiting_branch"
    /\ user_data.file_id # None
    /\ user_data.branch = None

\* C17: a session in awaiting_confirmation whose record is an NPWP has the
\* entity type of the record set to personal or company.
C17_TaxIdHasEntityType ==
    (/\ user_data.state = "awaiting_confirmation"
     /\ user_data.document_data # NoDoc
     /\ user_data.document_data.document_type = "NPWP")
    => user_data.document_data.npwp_type \in NPWPType

SessionButton ==
    \/ SaveConfirmation
    \/ ForceSave
    \/ EditRequest
    \/ FieldEdit
    \/ NpwpTypeSelection

\* C19: a save, edit, field, entity-type or force-save button pressed while
\* no session is present leaves the session absent or idle, with no branch
\* and no entity type, and the store as it was.
C19_NoSessionButton ==
    [][(user_data = EmptyData /\ SessionButton)
       => (/\ StateOf(user_data') = "idle"
           /\ user_data'.branch = None
           /\ user_data'.npwp_type = None
           /\ user_data'.edit_field = None
           /\ sheets' = sheets
           /\ uploads' = uploads)]_vars

\* C20: get_session for a user whose stored session has been idle for longer
\* than the timeout stores and returns a fresh session, idle and with no
\* workflow data; a stored session that is not expired is returned as it is
\* and stays stored.
C20_GetSessionReplacesExpired ==
    LET m == session_manager
        idle_time == m.now - m.found.last_activity
    IN (m.returned # NoSession /\ m.found # NoSession)
       => /\ \E user_id \in UserIds : m._sessions[user_id] = m.returned
          /\ IF idle_time > SESSION_TIMEOUT_MINUTES
             THEN /\ m.returned.state = "idle"
                  /\ m.returned.workflow_type = None
                  /\ m.returned.branch = None
                  /\ m.returned.last_activity = m.now
             ELSE m.returned = m.found

\* get_session has just replaced an expired session that was past its
\* branch selection
C20_Witness ==
    LET m == session_manager
    IN /\ m.found # NoSession
       /\ m.found.workflow_type = "photo"
       /\ m.found.branch # None
       /\ m.found.state # "idle"
       /\ m.now - m.found.last_activity > SESSION_TIMEOUT_MINUTES
       /\ m.returned.state = "idle"
       /\ m.returned.workflow_type = None

\* a photo or a PDF that fails the file validation: InvalidFileError goes to
\* handle_error
InvalidFileStep ==
    /\ PhotoMessage \/ PdfMessage
    /\ lastEvent'.kind # "intake"

\* C21: once a handler that ended in an error other than validation feedback
\* has finished (here: a file that fails the file validation), the session
\* is cleared, whether or not the error message was delivered.
C21_ErrorClearsSession ==
    [][InvalidFileStep => user_data' = EmptyData]_vars

ExtractEnded == ai_service.status \in {"returned", "raised"}

\* C23: an invocation of extract_document_data calls the recognition service
\* at most three times, makes no attempt after the one whose response parsed
\* into a record, and ends: with a record, or with an error.
C23_ExtractBounded ==
    /\ [](/\ ai_service.calls <= 3
          /\ Len(ai_service.history) <= max_retries
          /\ \A i \in 1..Len(ai_service.history) :
                ai_service.history[i] = "record"
                => (i = Len(ai_service.history) /\ ai_service.status = "returned")
          /\ ai_service.status = "returned" => ai_service.result # NoDoc
          /\ ai_service.status = "raised" => ai_service.error # None)
    /\ (ai_service.status = "running" ~> ExtractEnded)

\* the third call returned a record after two attempts that failed
C23_Witness ==
    /\ ai_service.status = "returned"
    /\ ai_service.calls = 3
    /\ ai_service.result # NoDoc

\* every attempt of the invocation failed and it was the last one allowed
\* that ended it, with a failure other than a rejected key
AllAttemptsFailed ==
    /\ ai_service.status = "raised"
    /\ Len(ai_service.history) = max_retries
    /\ ai_service.history[max_retries] # "authentication"

\* C24: when all three attempts have failed, the error raised is
\* AIProcessingError carrying the name of the service, whatever the last
\* attempt failed with.
C24_ErrorAfterRetries ==
    AllAttemptsFailed
    => /\ ai_service.error = "AIProcessingError"
       /\ ai_service.ai_service = ai_service.provider

\* C25: once an attempt has met a rejected key, the invocation has ended with
\* that failure: the attempt is the last one and no pause follows it.
C25_NoRetryAfterAuthentication ==
    \A i \in 1..Len(ai_service.history) :
       ai_service.history[i] = "authentication"
       => /\ i = Len(ai_service.history)
          /\ ai_service.status = "raised"
          /\ ai_service.error = "AuthenticationError"
          /\ Len(ai_service.pauses) = i - 1

\* the second attempt met a rejected key after a first that was retried
C25_Witness ==
    /\ ai_service.status = "raised"
    /\ ai_service.history = <<"timeout", "authentication">>
    /\ ai_service.calls = 2
    /\ ai_service.pauses = <<2>>

\* the digits of the raw value a finished call of the repair was given
Cleaned == SelectSeq(call.number_str, IsDigit)

\* the field a parsed response yields for a raw 15-digit tax number
Repaired15(raw) ==
    LET cleaned == SelectSeq(raw, IsDigit)
    IN IF Len(cleaned) = 15 THEN cleaned
       ELSE IF Len(cleaned) = 16 /\ cleaned[1] = 0 THEN Tail(cleaned)
       ELSE NoNum

\* C26: the repair for the 15-digit field, over every raw value: with the
\* characters that are not digits removed, 15 digits come back as they are,
\* 16 digits that begin with 0 come back without that 0, and every other
\* length comes back absent; the parse of a response whose document type and
\* name are usable never raises over its 15-digit field, whatever it holds
C26_Repair15 ==
    /\ (call.done /\ call.op = "_clean_and_validate_number"
        /\ call.expected_length = 15)
       => /\ Len(Cleaned) = 15 => call.result = Cleaned
          /\ (Len(Cleaned) = 16 /\ Cleaned[1] = 0) => call.result = Tail(Cleaned)
          /\ (Len(Cleaned) \notin {15, 16}
              \/ (Len(Cleaned) = 16 /\ Cleaned[1] # 0)) => call.result = NoNum
    /\ (call.done /\ call.op = "_parse_ai_response"
        /\ call.raw_data.document_type \in {"NPWP", "npwp "}
        /\ call.raw_data.nama = " Siti ")
       => /\ ~call.raised
          /\ call.document_data.nama = "Siti"
          /\ call.document_data.npwp_15 = Repaired15(call.raw_data.npwp_15)

\* a response whose 15-digit field held sixteen digits beginning with 0 and
\* whose 16-digit field held seventeen was parsed into a record with the
\* first repaired and the second absent
C26_Witness ==
    /\ call.done /\ call.op = "_parse_ai_response"
    /\ call.raw_data.npwp_15 = Digits(16, 0)
    /\ call.raw_data.npwp_16 = Digits(17, 8)
    /\ ~call.raised
    /\ call.document_data.document_type = "NPWP"
    /\ call.document_data.npwp_15 = Tail(Digits(16, 0))
    /\ call.document_data.npwp_16 = NoNum

\* C27: the repair for a 16-digit field (nik, npwp_16), over every raw
\* value: 16 digits come back as they are, 15 digits come back with a 0 put
\* before them, and every other length comes back absent
C27_Repair16 ==
    (call.done /\ call.op = "_clean_and_validate_number"
     /\ call.expected_length = 16)
    => /\ Len(Cleaned) = 16 => call.result = Cleaned
       /\ Len(Cleaned) = 15 => call.result = <<0>> \o Cleaned
       /\ Len(Cleaned) \notin {15, 16} => call.result = NoNum

\* fifteen digits were padded to sixteen
C27_Witness ==
    /\ call.done /\ call.op = "_clean_and_validate_number"
    /\ call.expected_length = 16
    /\ call.number_str = <<SP>> \o Digits(15, 8)
    /\ call.result = <<0>> \o Digits(15, 8)

\* str.strip() of a text field of a record; the names and addresses of the
\* extracted records have no blank at either end
strip_field(t) == IF t \in DOMAIN chars THEN strip_text(t) ELSE t

\* DocumentData.from_dict: the constructor is called on the values of the
\* dict, so __post_init__ cleans the numbers and strips the texts again
from_dict(data) ==
    [document_type |-> data.document_type,
     nama |-> IF data.nama \in {None, ""} THEN data.nama
              ELSE strip_field(data.nama),
     alamat |-> IF data.alamat \in {None, ""} THEN data.alamat
                ELSE strip_field(data.alamat),
     nik |-> IF data.nik = NoNum THEN NoNum ELSE _clean_number(data.nik),
     npwp_15 |-> IF data.npwp_15 = NoNum THEN NoNum
                 ELSE _clean_number(data.npwp_15),
     npwp_16 |-> IF data.npwp_16 = NoNum THEN NoNum
                 ELSE _clean_number(data.npwp_16),
     npwp_type |-> data.npwp_type]

\* C28: for every record the session holds, from_dict(to_dict(record)) is
\* that record
C28_DictRoundTrip ==
    user_data.document_data # NoDoc
    => from_dict(to_dict(user_data.document_data)) = user_data.document_data

\* the year the two digits of a NIK resolve to
ResolvedYear(y) == IF y > 50 THEN 1900 + y ELSE 2000 + y

\* a 16-digit string whose first two digits are a listed province and whose
\* digits 7-12 are a date DDMMYY, the day in 1..31 or 41..71, the month in
\* 1..12, the year resolved not after the current one
WellFormedNik(nik) ==
    /\ Len(nik) = 16
    /\ AllDigits(nik)
    /\ 10 * nik[1] + nik[2] \in valid_codes
    /\ 10 * nik[7] + nik[8] \in (1..31) \cup (41..71)
    /\ 10 * nik[9] + nik[10] \in 1..12
    /\ ResolvedYear(10 * nik[11] + nik[12]) <= current_year

Zeros16 == [i \in 1..16 |-> 0]
Ones16 == [i \in 1..16 |-> 1]

\* C29: validate_nik returns valid for every 16-digit string with a listed
\* province and a date whose year is not in the future, other than sixteen
\* '1'; it returns invalid for sixteen '0' and for sixteen '1'
C29_ValidateNik ==
    (call.done /\ call.op = "validate_nik")
    => /\ (WellFormedNik(call.number_str) /\ call.number_str # Ones16)
          => call.valid
       /\ call.number_str \in {Zeros16, Ones16} => ~call.valid

\* a NIK with day 71 (a woman born on the 31st) of a year resolved to 1951
\* was found valid
C29_Witness ==
    /\ call.done /\ call.op = "validate_nik"
    /\ call.number_str = Nik(32, 71, 12, 51, 5)
    /\ call.valid

\* C29 as stated: valid for every such string, sixteen '1' included
C29_AsStated ==
    (call.done /\ call.op = "validate_nik")
    => /\ WellFormedNik(call.number_str) => call.valid
       /\ call.number_str \in {Zeros16, Ones16} => ~call.valid

\* DataService.format_id_16_digit
format_id_16_digit(id_number) ==
    IF id_number = NoNum \/ Len(id_number) # 16 THEN id_number
    ELSE SubSeq(id_number, 1, 4) \o <<SP>> \o SubSeq(id_number, 5, 8)
         \o <<SP>> \o SubSeq(id_number, 9, 12) \o <<SP>>
         \o SubSeq(id_number, 13, 16)

\* DataService.format_npwp_15
format_npwp_15(npwp) ==
    IF npwp = NoNum \/ Len(npwp) # 15 THEN npwp
    ELSE SubSeq(npwp, 1, 2) \o <<DOT>> \o SubSeq(npwp, 3, 5) \o <<DOT>>
         \o SubSeq(npwp, 6, 8) \o <<DOT>> \o SubSeq(npwp, 9, 9) \o <<DASH>>
         \o SubSeq(npwp, 10, 12) \o <<DOT>> \o SubSeq(npwp, 13, 15)

\* DocumentData.display_name
display_name(doc) ==
    IF doc.document_type = "NPWP" /\ doc.npwp_type # None
    THEN IF doc.npwp_type = "company" THEN "NPWP Perusahaan"
         ELSE "NPWP Orang Pribadi"
    ELSE doc.document_type

\* DataService.build_preview_text for a DocumentData object: what the lines
\* of the preview show, None or NoNum for a block that is left out
build_preview_text(document_obj, branch, sheet_name, nama_toko) ==
    [branch |-> branch,
     sheet_name |-> sheet_name,
     nama_toko |-> IF nama_toko \in {None, ""} THEN None ELSE nama_toko,
     display_name |-> display_name(document_obj),
     nama |-> document_obj.nama,
     nik |-> IF document_obj.document_type = "KTP"
             THEN format_id_16_digit(document_obj.nik) ELSE NoNum,
     npwp_15 |-> IF document_obj.document_type = "NPWP"
                 THEN format_npwp_15(document_obj.npwp_15) ELSE NoNum,
     npwp_16 |-> IF document_obj.document_type = "NPWP"
                 THEN format_id_16_digit(document_obj.npwp_16) ELSE NoNum,
     id_tku |-> IF document_obj.document_type = "NPWP"
                THEN id_tku(document_obj) ELSE NoNum,
     alamat |-> IF document_obj.alamat \in {None, ""} THEN None
                ELSE document_obj.alamat]

\* the preview _process_document_and_show_preview builds from a session
PreviewOf(ud) ==
    build_preview_text(ud.document_data, ud.branch, ud.sheet_name, NamaToko(ud))

\* a session waiting for the recognition of its photo, its branch chosen
PhotoBranchChosen(ud) ==
    /\ ud.state = "awaiting_branch"
    /\ ud.workflow_type = "photo"
    /\ ud.file_id # None
    /\ is_valid_branch(ud.branch)
    /\ ud.sheet_name = SHEET_NAME_MAP[ud.branch]

C31_BranchEdit ==
    [][ \A b \in DOMAIN SHEET_NAME_MAP :
          (BranchSelectionOf(b) /\ user_data.state = "awaiting_branch_edit")
          => /\ user_data'.state = "awaiting_confirmation"
             /\ user_data'.branch = b
             /\ user_data'.sheet_name = SHEET_NAME_MAP[b]
             /\ user_data'.document_data = user_data.document_data
             /\ tasks' = tasks
    ]_vars

\* C32: whenever the session holds a record and the dict made of it
\* (extracted_data), every key of the dict for a field or a derived value of
\* the record (nama, alamat, nik, npwp_15, npwp_16, npwp_type, primary_id,
\* id_tku) holds the record's current value
C32_DictAgreesWithRecord ==
    (user_data.document_data # NoDoc /\ user_data.extracted_data.exists)
    => user_data.extracted_data = to_dict(user_data.document_data)

\* the fields _validate_edit_value has a validator for
ValidatedFields == {"nama", "alamat", "nik", "npwp_15", "npwp_16"}

\* C33: the document type of the record of the session is KTP or NPWP in
\* every state, also after an edit of any field the edit keyboard offers,
\* and no typed value is accepted for a field that has no validator
C33_KindStaysEnum ==
    /\ [](user_data.document_data # NoDoc
          => user_data.document_data.document_type \in {"KTP", "NPWP"})
    /\ [][(DataEdit /\ lastEvent'.kind = "edit_accepted")
          => user_data.edit_field \in ValidatedFields]_vars

\* the fields of a record that apply to its kind and are populated
ApplicableAndPopulated(doc) ==
    {f \in {"nama", "alamat"} : doc[f] \notin {None, ""}}
    \cup (IF doc.document_type = "KTP" /\ doc.nik # NoNum THEN {"nik"} ELSE {})
    \cup (IF doc.document_type = "NPWP"
          THEN {f \in {"npwp_15", "npwp_16"} : doc[f] # NoNum} ELSE {})

\* C34: the keyboard of the edit menu holds the buttons of the fields that
\* apply to the kind of the record and are populated, the button of the
\* save location and the back button, and no other
C34_EditMenu ==
    lastEvent.kind = "edit_menu"
    => /\ FieldsOn(call.result) = ApplicableAndPopulated(user_data.document_data)
       /\ "location" \in {call.result[i] : i \in 1..Len(call.result)}
       /\ "cancel" \in {call.result[i] : i \in 1..Len(call.result)}

\* C35: a commit for a branch whose sub-folder an earlier commit of the
\* process has found or created (subfolders starts empty, so the branch is
\* in it only after such a commit) uploads without asking the store for the
\* sub-folder again: its calls hold neither files().list nor a folder create
C35_SubfolderAskedOnce ==
    [][ lastCommit'.branch \in subfolders
        => \A i \in 1..Len(lastCommit'.calls) :
              lastCommit'.calls[i] \notin {"files.list", "folder.create"}
    ]_vars

\* C36: validate_nik reports as invalid each of the ten strings made of one
\* digit sixteen times
C36_SameDigitRejected ==
    (/\ call.done
     /\ call.op = "validate_nik"
     /\ \E d \in 0..9 : call.number_str = [i \in 1..16 |-> d])
    => ~call.valid

\* sixteen '2', which pass the two explicit tests and the province list,
\* were found invalid
C36_Witness ==
    /\ call.done
    /\ call.op = "validate_nik"
    /\ call.number_str = [i \in 1..16 |-> 2]
    /\ _is_valid_province_code(22)
    /\ ~call.valid

\* the row an earlier save of the session's record appended, its handler
\* still waiting in the upload
RowInFlight(task) ==
    /\ task.kind = "upload"
    /\ task.cm.append = "ok"
    /\ ~task.cm.bypass
    /\ user_data.document_data # NoDoc
    /\ task.cm.branch = user_data.branch
    /\ sheets[task.cm.sheet][task.cm.row] =
           to_sheet_row(user_data.document_data, NamaToko(user_data))

\* C37: a save of a record, processed while the handler of an earlier save
\* of the same session and record waits in its upload, appends no second
\* row for that record.
C37_InterleavedSave ==
    [][(SaveConfirmation /\ \E task \in BagToSet(tasks) : RowInFlight(task))
       => sheets' = sheets]_vars

\* the same for a record with a duplicate token and a lookup the store
\* answers
InterleavedSaveAnswered ==
    [][(/\ SaveConfirmation
        /\ \E task \in BagToSet(tasks) : RowInFlight(task)
        /\ get_duplicate_check_values(user_data.document_data) # {}
        /\ lastCommit'.lookup = "ok")
       => /\ sheets' = sheets
          /\ lastCommit'.result = "duplicate_found"]_vars

InterleavedSaveReached ==
    /\ lastCommit.result = "duplicate_found"
    /\ \E task \in BagToSet(tasks) : task.kind = "upload" /\ task.cm.append = "ok"

PDF_SUBFOLDER(branch) == [folder |-> FOLDER_MAP[branch], file_id |-> "pdf1"]

\* C38: in the PDF workflow, with a valid branch chosen, a file name of 2 to
\* 100 characters typed in awaiting_pdf_name, every call to the store
\* succeeding, has the file uploaded for the branch and the save reported as
\* a success, and the session is cleared; a name outside that range leaves
\* the state awaiting_pdf_name and stores no file name.
C38_PdfNaming ==
    [][\A text \in PdfNames :
          (/\ PdfNamingOf(text, TRUE)
           /\ user_data.workflow_type = "pdf"
           /\ user_data.branch # None /\ is_valid_branch(user_data.branch))
          => IF Len(Strip(text)) \in 2..100
             THEN /\ lastEvent'.kind = "pdf_saved"
                  /\ uploads' = Append(uploads, PDF_SUBFOLDER(user_data.branch))
                  /\ user_data' = EmptyData
             ELSE /\ user_data'.state = "awaiting_pdf_name"
                  /\ user_data'.custom_filename = None]_vars

\* the part of C38 the handler keeps: a name outside 2..100 characters
\* changes nothing, and a name inside ends with the session cleared
PdfNameChecked ==
    [][\A text \in PdfNames, initOk \in BOOLEAN :
          PdfNamingOf(text, initOk)
          => IF Len(Strip(text)) \in 2..100
             THEN /\ lastEvent'.kind = "pdf_failed"
                  /\ uploads' = uploads
                  /\ user_data' = EmptyData
             ELSE /\ lastEvent'.kind = "pdf_name_rejected"
                  /\ user_data' = user_data
                  /\ user_data'.custom_filename = None]_vars

PdfNameReached == lastEvent.kind \in {"pdf_failed", "pdf_name_rejected"}

(***************************************************************************)
(* UserSession with its record and counters, written to a dictionary and   *)
(* read back (to_dict, from_dict).  The session of the one user is kept in *)
(* the manager; found is the session that was written, returned the        *)
(* session from_dict built of the dictionary.                              *)
(***************************************************************************)
MaxInteractions == 4
MaxErrors == 1

\* UserSession.update_activity
update_activity(session, now) ==
    [session EXCEPT !.last_activity = now,
                    !.total_interactions = @ + 1]

\* UserSession(user_id=...) with all the fields the dictionary carries:
\* the defaults, then __post_init__ calls update_activity
StoredSession(now) ==
    update_activity([state |-> "idle", workflow_type |-> None,
                     created_at |-> now, last_activity |-> now,
                     branch |-> None, document_data |-> NoDoc,
                     total_interactions |-> 0, error_count |-> 0], now)

\* datetime.isoformat and datetime.fromisoformat, of a time in minutes
isoformat(t) == [hour |-> t \div 60, minute |-> t % 60]
fromisoformat(text) == text.hour * 60 + text.minute

\* UserSession.to_dict
UserSession_to_dict(session) ==
    [state |-> session.state,
     workflow_type |-> session.workflow_type,
     created_at |-> isoformat(session.created_at),
     last_activity |-> isoformat(session.last_activity),
     branch |-> session.branch,
     document_data |-> IF session.document_data # NoDoc
                       THEN to_dict(session.document_data)
                       ELSE NoDict,
     total_interactions |-> session.total_interactions,
     error_count |-> session.error_count]

\* the constructor call of from_dict without __post_init__
UserSession_cls(data) ==
    [state |-> data.state,
     workflow_type |-> data.workflow_type,
     created_at |-> fromisoformat(data.created_at),
     last_activity |-> fromisoformat(data.last_activity),
     branch |-> data.branch,
     document_data |-> IF data.document_data.exists
                       THEN from_dict(data.document_data)
                       ELSE NoDoc,
     total_interactions |-> data.total_interactions,
     error_count |-> data.error_count]

\* UserSession.from_dict at the time now: cls(...) runs __post_init__
UserSession_from_dict(data, now) == update_activity(UserSession_cls(data), now)

InitRestore ==
    /\ user_data = EmptyData
    /\ tasks = EmptyBag
    /\ sheets = [n \in SheetNames |-> << >>]
    /\ uploads = << >>
    /\ subfolders = {}
    /\ lastCommit = NoCommit
    /\ cancelHandled = FALSE
    /\ lastEvent = NoEvent
    /\ session_manager =
          [NoManager EXCEPT !._sessions = [u \in UserIds |-> StoredSession(0)]]
    /\ ai_service = NoExtraction
    /\ call = NoCall

\* set_workflow and set_state of the stored session
SessionStep ==
    /\ \E user_id \in UserIds,
          workflow_type \in {"photo", "pdf"},
          new_state \in {"awaiting_branch", "awaiting_confirmation"} :
         LET session == session_manager._sessions[user_id]
             moved == IF new_state = "awaiting_branch"
                      THEN [session EXCEPT !.workflow_type = workflow_type,
                                           !.state = new_state]
                      ELSE [session EXCEPT !.state = new_state]
         IN /\ session.total_interactions < MaxInteractions
            /\ session_manager' =
                  Forgotten([session_manager EXCEPT !._sessions[user_id] =
                               update_activity(moved, session_manager.now)])
    /\ UNCHANGED <<handler_vars, ai_service, call>>

\* session.branch = ..., session.document_data = ...: plain assignments
SessionRecord ==
    /\ \E user_id \in UserIds, doc \in ExtractedDocs :
         session_manager' =
            Forgotten([session_manager EXCEPT
                          !._sessions[user_id].branch = "BJ",
                          !._sessions[user_id].document_data = doc])
    /\ UNCHANGED <<handler_vars, ai_service, call>>

\* UserSession.increment_error_count
SessionError ==
    /\ \E user_id \in UserIds :
         LET session == session_manager._sessions[user_id]
         IN /\ session.total_interactions < MaxInteractions
            /\ session.error_count < MaxErrors
            /\ session_manager' =
                  Forgotten([session_manager EXCEPT !._sessions[user_id] =
                               update_activity([session EXCEPT !.error_count = @ + 1],
                                               session_manager.now)])
    /\ UNCHANGED <<handler_vars, ai_service, call>>

\* time passes: the length of the timeout, or a minute more
RestoreTick ==
    /\ \E d \in Elapsed :
         /\ session_manager.now + d <= MaxNow
         /\ session_manager' =
               Forgotten([session_manager EXCEPT !.now = @ + d])
    /\ UNCHANGED <<handler_vars, ai_service, call>>

\* the session is written with to_dict and replaced by what from_dict
\* builds of the dictionary
Restore ==
    /\ \E user_id \in UserIds :
         LET session == session_manager._sessions[user_id]
             rebuilt == UserSession_from_dict(UserSession_to_dict(session),
                                              session_manager.now)
         IN /\ session.total_interactions < MaxInteractions
            /\ session_manager' =
                  [session_manager EXCEPT !._sessions[user_id] = rebuilt,
                                          !.found = session,
                                          !.returned = rebuilt]
    /\ UNCHANGED <<handler_vars, ai_service, call>>

NextRestore ==
    \/ SessionStep
    \/ SessionRecord
    \/ SessionError
    \/ RestoreTick
    \/ Restore

SpecRestore == InitRestore /\ [][NextRestore]_vars

Restored == session_manager.found # NoSession

\* C39: the session from_dict builds of to_dict(s) has the state, workflow
\* type, branch, record, last_activity and interaction and error counters
\* of s, and is expired if s was.
C39_SessionRoundTrip ==
    Restored =>
       LET s == session_manager.found
           r == session_manager.returned
           now == session_manager.now
       IN /\ r.state = s.state
          /\ r.workflow_type = s.workflow_type
          /\ r.branch = s.branch
          /\ r.document_data = s.document_data
          /\ r.last_activity = s.last_activity
          /\ r.total_interactions = s.total_interactions
          /\ r.error_count = s.error_count
          /\ is_expired(s, now) => is_expired(r, now)

\* what from_dict keeps, and what __post_init__ does to the rest
RestoredButTouched ==
    Restored =>
       LET s == session_manager.found
           r == session_manager.returned
           now == session_manager.now
       IN /\ r.state = s.state
          /\ r.workflow_type = s.workflow_type
          /\ r.branch = s.branch
          /\ r.document_data = s.document_data
          /\ r.created_at = s.created_at
          /\ r.error_count = s.error_count
          /\ r.last_activity = now
          /\ r.total_interactions = s.total_interactions + 1
          /\ ~is_expired(r, now)
          /\ UserSession_cls(UserSession_to_dict(s)) = s

ExpiredRestored ==
    /\ Restored
    /\ is_expired(session_manager.found, session_manager.now)
    /\ session_manager.found.document_data # NoDoc


=============================================================================
